---- MODULE Spec2Model ----
(***************************************************************************)
(* State-machine model of the brkt-cli image workflows:                    *)
(*   - encrypt()      of brkt_cli/encrypt_ami.py      (wf = "encrypt")     *)
(*   - _clean_up()    of brkt_cli/encrypt_ami.py      (wf = "cleanup")     *)
(*   - update_ami()   of brkt_cli/aws/update_ami.py   (wf = "update")      *)
(*   - encrypt()      of brkt_cli/encrypt_gce_image.py (wf = "gce")        *)
(*   - wait_for_encryption() of brkt_cli/encrypt_ami.py (wf = "wfe")       *)
(* The provider (EC2 / GCE) is modelled by the variables inst, vol, snap,  *)
(* sg and image; every provider call may succeed or raise.                 *)
(***************************************************************************)
EXTENDS Integers, Sequences, FiniteSets, TLC

VARIABLES
    wf,     \* the workflow this behaviour runs
    pc,     \* position of the workflow in its code
    err,    \* the exception in flight ("none" when there is none)
    inst,   \* provider: instance id -> state
    vol,    \* provider: volume id -> [st, at, dot, tag]
    snap,   \* provider: snapshot id -> status
    sg,     \* provider: security group id -> [st, tag]
    image,  \* provider: state of the image the workflow registers
    loc,    \* local variables of the workflow function
    cu,     \* frame of _clean_up / clean_up
    hist    \* history of the calls issued (observation only)

vars == <<wf, pc, err, inst, vol, snap, sg, image, loc, cu, hist>>

None == "None"

Instances == {"snapshotter", "encryptor", "guest", "updater"}
InstanceOrder == <<"snapshotter", "encryptor", "guest", "updater">>

EncryptorDevices == {"sda1", "sda2", "sda3", "sda4", "sda5"}
Volumes == {"vroot"} \cup EncryptorDevices \cup {"g_sda1", "g_sdf", "u_sda1"}
VolumeOrder ==
    <<"vroot", "sda1", "sda2", "sda3", "sda4", "sda5", "g_sda1", "g_sdf", "u_sda1">>

EncryptorSnapshots == {"snap_guest", "snap_bsd", "snap_grub", "snap_log"}
Snapshots == {"orig"} \cup EncryptorSnapshots
SnapshotOrder == <<"orig", "snap_guest", "snap_bsd", "snap_grub", "snap_log">>

SecurityGroups == {"sg_temp", "sg_user"}
SecurityGroupOrder == <<"sg_temp", "sg_user">>

NoVolume == [st |-> "absent", at |-> "none", dot |-> FALSE, tag |-> FALSE]
NoGroup == [st |-> "absent", tag |-> FALSE]

\* A Python value that is a list, or None.
List(s) == [isNone |-> FALSE, ids |-> s]
NoList == [isNone |-> TRUE, ids |-> <<>>]

SeqOfSet(order, S) == SelectSeq(order, LAMBDA x : x \in S)
Range(s) == {s[k] : k \in 1..Len(s)}

(***************************************************************************)
(* Provider behaviour.                                                     *)
(***************************************************************************)

\* A volume attached to an instance goes away with it when it was created
\* with delete_on_termination, and becomes available otherwise.
VolOnTerminated(i) ==
    [v \in Volumes |->
        IF vol[v].st = "inuse" /\ vol[v].at = i
        THEN IF vol[v].dot THEN NoVolume
             ELSE [vol[v] EXCEPT !.st = "avail", !.at = "none"]
        ELSE vol[v]]

VolIfTerminated(i, s) == IF s = "terminated" THEN VolOnTerminated(i) ELSE vol

\* The state an instance passes through on its way to `target`.
StateBefore(target) ==
    CASE target = "running" -> "pending"
      [] target = "stopped" -> "stopping"
      [] target = "terminated" -> "shutting-down"

\* _wait_for_instance that returns without comparing the state it polled
\* with the state it waits for.
WaitResultsAnyState(s, target) == {<<"ok", s>>, <<"ok", target>>}

\* Outcomes <<result, state the instance is left in>> of
\* _wait_for_instance(id, state=target) for an instance now in state s.
WaitResults(s, target) ==
    (IF s \in {target, StateBefore(target)} THEN {<<"ok", target>>} ELSE {})
    \cup (IF s # target THEN {<<"InstanceError", s>>} ELSE {})
    \cup (IF s = "pending" THEN {<<"InstanceError", "error">>} ELSE {})
    \cup (IF target # "terminated" /\ s \in {"pending", "running", "stopping"}
          THEN {<<"InstanceError", "terminated">>} ELSE {})
    \cup {<<"EC2ResponseError", s>>, <<"KeyboardInterrupt", s>>}

\* An instance that still holds its volumes and security groups.
Live(i) == inst[i] \notin {"none", "terminated"}

\* Outcomes of aws_svc.terminate_instance(i): <<succeeded, new state>>.
TerminateResults(i) ==
    CASE inst[i] = "none" -> {<<FALSE, "none">>}
      [] inst[i] = "terminated" -> {<<TRUE, "terminated">>, <<FALSE, "terminated">>}
      [] OTHER -> {<<TRUE, "shutting-down">>, <<FALSE, inst[i]>>}

\* Outcomes of aws_svc.delete_volume(v): the provider rejects the deletion of
\* a volume that is attached, and of one that does not exist.
DeleteVolumeResults(v) ==
    IF vol[v].st = "avail" THEN {TRUE, FALSE} ELSE {FALSE}

\* Outcomes of aws_svc.delete_snapshot(s).
DeleteSnapshotResults(s) ==
    IF snap[s] # "absent" THEN {TRUE, FALSE} ELSE {FALSE}

\* The encryptor / updater instance is launched in the workflow's groups.
GroupInUse(g) ==
    /\ Live("encryptor") \/ Live("updater")
    /\ g \in loc.security_group_ids

\* Outcomes of aws_svc.delete_security_group(g).
DeleteGroupResults(g) ==
    IF sg[g].st = "present" /\ ~GroupInUse(g) THEN {TRUE, FALSE} ELSE {FALSE}

\* An instance finishes shutting down, at any time.
InstanceTerminates ==
    /\ pc # "done"
    /\ \E i \in Instances :
        /\ inst[i] = "shutting-down"
        /\ inst' = [inst EXCEPT ![i] = "terminated"]
        /\ vol' = VolOnTerminated(i)
    /\ UNCHANGED <<wf, pc, err, snap, sg, image, loc, cu, hist>>

(***************************************************************************)
(* Initial provider state and history.                                     *)
(***************************************************************************)

NoInstances == [i \in Instances |-> "none"]
NoVolumes == [v \in Volumes |-> NoVolume]
NoSnapshots == [s \in Snapshots |-> "absent"]
Groups(userGroup) ==
    [g \in SecurityGroups |->
        IF g = "sg_user" /\ userGroup
        THEN [st |-> "present", tag |-> FALSE] ELSE NoGroup]

NoHistory ==
    [cleanupCalls |-> 0,        \* invocations of the compensation pass
     tdFailed |-> FALSE,        \* a terminate / delete call has failed
     orderViol |-> FALSE,       \* a volume / group delete call was issued
                                \* in compensation while an instance lived
     termCalls |-> {},          \* instances _clean_up called terminate on
     delCalls |-> {},           \* ids _clean_up called delete on
     interrupted |-> FALSE,     \* a user interrupt was delivered
     console |-> FALSE,         \* console output was fetched
     imageCalls |-> {},         \* <<call, image>>: calls that named an image
     raised |-> <<>>]           \* per _clean_up invocation: did it raise

NoFrame ==
    [instance_ids |-> <<>>, snapshot_ids |-> <<>>, volume_ids |-> List(<<>>),
     security_group_ids |-> <<>>, terminated |-> <<>>, i |-> 1, round |-> 0,
     after1 |-> {}]

(***************************************************************************)
(* encrypt() of encrypt_ami.py.                                            *)
(***************************************************************************)

UpTimeout == 3               \* Deadline(600), in polling intervals
MaxStep == 2                \* a poll and its sleep take 1..MaxStep intervals

\* Deadline.is_expired() at time `now`.
is_expired(deadline, now) == now > deadline

EncryptLocals(groups, subnet) ==
    [security_group_ids |-> groups,     \* {} when the caller gave none
     subnet_id |-> subnet,              \* did the caller give a subnet
     snapshotter_instance |-> None,
     encryptor_instance |-> None,
     snapshot_id |-> None,
     temp_sg_id |-> None,
     ami |-> None,
     terminated_instance_ids |-> {},
     up_elapsed |-> 0,                  \* intervals waited for the agent
     encryptor_up |-> "not polled",     \* last answer of is_encryptor_up
     up_result |-> "none",              \* how wait_for_encryptor_up was left
     status_polled |-> FALSE]           \* wait_for_encryption was entered

InitEncrypt ==
    /\ wf = "encrypt"
    /\ pc = "run_snapshotter"
    /\ err = "none"
    /\ inst = NoInstances
    /\ vol = NoVolumes
    /\ snap = NoSnapshots
    /\ image = "absent"
    /\ \E userGroup \in BOOLEAN, subnet \in BOOLEAN :
        /\ sg = Groups(userGroup)
        /\ loc = EncryptLocals(IF userGroup THEN {"sg_user"} ELSE {}, subnet)
    /\ cu = NoFrame
    /\ hist = NoHistory

\* A step that tags the guest image.
ImageCallsTaggingGuest(step) == {<<"create_tags", "guest">>}

\* The calls of a step of encrypt() or update_ami() that name an image: the
\* guest image and the agent (encryptor, updater) image of the caller, or the
\* new image that register_image / create_image returns.
ImageCalls(step) ==
    CASE step = "run_snapshotter" -> {<<"run_instance", "guest">>}
      [] step = "run_encryptor" -> {<<"run_instance", "agent">>}
      [] step = "register_new_ami" ->
            {<<"get_image", "guest">>, <<"get_image", "agent">>,
             <<"register_image", "new">>, <<"get_image", "new">>,
             <<"create_tags", "new">>}
      [] step = "launch_guest" ->
            {<<"get_image", "guest">>, <<"run_instance", "guest">>}
      [] step = "launch_updater" -> {<<"run_instance", "agent">>}
      [] step = "create_image" ->
            {<<"create_image", "new">>, <<"get_image", "new">>,
             <<"create_tags", "new">>}
      [] OTHER -> {}

\* An exception leaves the try block of encrypt(): control goes to finally.
Hist(e, failed) ==
    [hist EXCEPT !.interrupted = @ \/ (e = "KeyboardInterrupt"),
                 !.tdFailed = @ \/ failed,
                 !.imageCalls = @ \cup ImageCalls(pc)]

Attached(i, tagged) == [st |-> "inuse", at |-> i, dot |-> TRUE, tag |-> tagged]

\* run_snapshotter_instance: run_instance, create_tags, _wait_for_instance.
\* The instance is returned to encrypt() only when all three succeed.
run_snapshotter_instance ==
    /\ wf = "encrypt" /\ pc = "run_snapshotter"
    /\ \E o \in {<<"EC2ResponseError", "none">>, <<"EC2ResponseError", "pending">>}
                \cup WaitResults("pending", "running") :
        /\ inst' = [inst EXCEPT !["snapshotter"] = o[2]]
        /\ vol' = IF o[2] \in {"none", "terminated"} THEN vol
                  ELSE [vol EXCEPT !["vroot"] = Attached("snapshotter", FALSE)]
        /\ IF o[1] = "ok"
           THEN /\ loc' = [loc EXCEPT !.snapshotter_instance = "snapshotter"]
                /\ pc' = "snapshot_root"
                /\ UNCHANGED err
           ELSE /\ err' = o[1]
                /\ pc' = "finally"
                /\ UNCHANGED loc
        /\ hist' = Hist(o[1], FALSE)
    /\ UNCHANGED <<wf, snap, sg, image, cu>>

\* _snapshot_root_volume without the wait for the stopped state: the snapshot
\* of the root volume is taken while the snapshotter is still stopping.
SnapshotRootResultsNoWait ==
    {<<"EC2ResponseError", "running", FALSE, "absent">>,
     <<"SnapshotError", "stopping", TRUE, "error">>,
     <<"ok", "stopping", TRUE, "completed">>,
     <<"ok", "stopped", TRUE, "completed">>}

\* Outcomes <<result, instance state, root volume tagged, snapshot status>>
\* of _snapshot_root_volume: stop_instance, _wait_for_instance(stopped),
\* get_volume, create_tags, create_snapshot, wait_for_snapshots.
SnapshotRootResults ==
    {<<"EC2ResponseError", "running", FALSE, "absent">>}
    \cup {<<r[1], r[2], FALSE, "absent">> :
            r \in {w \in WaitResults("stopping", "stopped") : w[1] # "ok"}}
    \cup {<<"EC2ResponseError", "stopped", FALSE, "absent">>,
          <<"EC2ResponseError", "stopped", TRUE, "absent">>,
          <<"SnapshotError", "stopped", TRUE, "error">>,
          <<"EC2ResponseError", "stopped", TRUE, "pending">>,
          <<"KeyboardInterrupt", "stopped", TRUE, "pending">>,
          <<"ok", "stopped", TRUE, "completed">>}

\* The snapshot id reaches encrypt() only when _snapshot_root_volume returns.
snapshot_root_volume ==
    /\ wf = "encrypt" /\ pc = "snapshot_root"
    /\ \E o \in SnapshotRootResults :
        /\ inst' = [inst EXCEPT !["snapshotter"] = o[2]]
        /\ vol' = IF o[2] = "terminated" THEN VolOnTerminated("snapshotter")
                  ELSE [vol EXCEPT !["vroot"].tag = o[3]]
        /\ snap' = [snap EXCEPT !["orig"] = o[4]]
        /\ IF o[1] = "ok"
           THEN /\ loc' = [loc EXCEPT !.snapshot_id = "orig"]
                /\ pc' = "terminate_snapshotter"
                /\ UNCHANGED err
           ELSE /\ err' = o[1]
                /\ pc' = "finally"
                /\ UNCHANGED loc
        /\ hist' = Hist(o[1], FALSE)
    /\ UNCHANGED <<wf, sg, image, cu>>

\* terminate_instance(): the failure of the call is logged and swallowed,
\* only a successful call records the id in terminated_instance_ids.
terminate_instance(i, field, next) ==
    \E o \in TerminateResults(i) :
        /\ inst' = [inst EXCEPT ![i] = o[2]]
        /\ loc' = [loc EXCEPT
                     ![field] = None,
                     !.terminated_instance_ids = IF o[1] THEN @ \cup {i} ELSE @]
        /\ hist' = Hist("none", ~o[1])
        /\ pc' = next
        /\ UNCHANGED <<wf, err, vol, snap, sg, image, cu>>

terminate_snapshotter ==
    /\ wf = "encrypt" /\ pc = "terminate_snapshotter"
    /\ terminate_instance("snapshotter", "snapshotter_instance", "security_group")

\* Outcomes <<result, group exists, group tagged, a delete call failed>> of
\* get_subnet and create_encryptor_security_group.
SecurityGroupResults(subnet) ==
    (IF subnet THEN {<<"EC2ResponseError", FALSE, FALSE, FALSE>>} ELSE {})
    \cup {<<"EC2ResponseError", FALSE, FALSE, FALSE>>,  \* create / add rule failed
          <<"EC2ResponseError", TRUE, FALSE, TRUE>>,    \* ... and so did the delete
          <<"EC2ResponseError", TRUE, FALSE, FALSE>>,   \* create_tags failed
          <<"ok", TRUE, TRUE, FALSE>>}

\* A temporary group is created only when the caller supplied none.
create_security_group ==
    /\ wf = "encrypt" /\ pc = "security_group"
    /\ IF loc.security_group_ids # {}
       THEN /\ pc' = "run_encryptor"
            /\ UNCHANGED <<err, sg, loc, hist>>
       ELSE \E o \in SecurityGroupResults(loc.subnet_id) :
            /\ sg' = [sg EXCEPT !["sg_temp"] =
                        IF o[2] THEN [st |-> "present", tag |-> o[3]] ELSE NoGroup]
            /\ IF o[1] = "ok"
               THEN /\ loc' = [loc EXCEPT !.temp_sg_id = "sg_temp",
                                          !.security_group_ids = {"sg_temp"}]
                    /\ pc' = "run_encryptor"
                    /\ UNCHANGED err
               ELSE /\ err' = o[1]
                    /\ pc' = "finally"
                    /\ UNCHANGED loc
            /\ hist' = Hist(o[1], o[4])
    /\ UNCHANGED <<wf, inst, vol, snap, image, cu>>

\* The volumes run_encryptor_instance tags, in the order it tags them.
EncryptorTagOrder == <<"sda5", "sda2", "sda1", "sda3">>

\* Outcomes <<result, instance state, number of volumes tagged>> of
\* run_encryptor_instance: run_instance, create_tags, _wait_for_instance,
\* then create_tags on four of the five volumes.
RunEncryptorResults ==
    {<<"EC2ResponseError", "none", 0>>}
    \cup {<<r[1], r[2], 0>> :
            r \in {w \in WaitResults("pending", "running") : w[1] # "ok"}}
    \cup {<<"EC2ResponseError", "running", k>> : k \in 0..3}
    \cup {<<"ok", "running", 4>>}

run_encryptor_instance ==
    /\ wf = "encrypt" /\ pc = "run_encryptor"
    /\ \E o \in RunEncryptorResults :
        /\ inst' = [inst EXCEPT !["encryptor"] = o[2]]
        /\ vol' = IF o[2] \in {"none", "terminated"} THEN vol
                  ELSE [v \in Volumes |->
                          IF v \in EncryptorDevices
                          THEN Attached("encryptor",
                                 \E k \in 1..o[3] : EncryptorTagOrder[k] = v)
                          ELSE vol[v]]
        /\ IF o[1] = "ok"
           THEN /\ loc' = [loc EXCEPT !.encryptor_instance = "encryptor"]
                /\ pc' = "wait_for_encryptor_up"
                /\ UNCHANGED err
           ELSE /\ err' = o[1]
                /\ pc' = "finally"
                /\ UNCHANGED loc
        /\ hist' = Hist(o[1], FALSE)
    /\ UNCHANGED <<wf, snap, sg, image, cu>>

\* Variant of the loop that takes any answer of the agent for "up".
AnyAnswerIsUp(expired, up) == IF expired THEN "BracketError" ELSE "return"

\* One iteration of the loop of wait_for_encryptor_up: the deadline is
\* looked at first, then the agent is asked.
EncryptorUpStep(expired, up) ==
    IF expired THEN "BracketError"
    ELSE IF up THEN "return" ELSE "sleep"

\* wait_for_encryptor_up(enc_svc, Deadline(600)), one iteration of its loop
\* per step; a poll and its sleep take 1..MaxStep intervals.  An interrupt
\* may end the wait.
wait_for_encryptor_up ==
    /\ wf = "encrypt" /\ pc = "wait_for_encryptor_up"
    /\ \/ \E up \in BOOLEAN, d \in 1..MaxStep :
          LET expired == is_expired(UpTimeout, loc.up_elapsed)
              step == EncryptorUpStep(expired, up)
              asked == IF expired THEN loc
                       ELSE [loc EXCEPT !.encryptor_up =
                                          IF up THEN "up" ELSE "down"]
          IN  CASE step = "BracketError" ->
                     /\ loc' = [asked EXCEPT !.up_result = "BracketError",
                                             !.up_elapsed = 0]
                     /\ err' = "BracketError" /\ pc' = "finally"
                     /\ hist' = Hist("BracketError", FALSE)
                [] step = "return" ->
                     /\ loc' = [asked EXCEPT !.up_result = "returned",
                                             !.up_elapsed = 0]
                     /\ pc' = "wait_for_encryption"
                     /\ hist' = Hist("ok", FALSE)
                     /\ UNCHANGED err
                [] OTHER ->
                     /\ loc' = [asked EXCEPT !.up_elapsed = @ + d]
                     /\ hist' = Hist("ok", FALSE)
                     /\ UNCHANGED <<pc, err>>
       \/ /\ loc' = [loc EXCEPT !.up_result = "KeyboardInterrupt",
                                !.up_elapsed = 0]
          /\ err' = "KeyboardInterrupt" /\ pc' = "finally"
          /\ hist' = Hist("KeyboardInterrupt", FALSE)
    /\ UNCHANGED <<wf, inst, vol, snap, sg, image, cu>>

\* wait_for_encryption(enc_svc) and the handler of EncryptionError, which
\* fetches the console output of the encryptor instance and raises again.
encrypt_wait_for_encryption ==
    /\ wf = "encrypt" /\ pc = "wait_for_encryption"
    /\ \E o \in {"ok", "EncryptionError", "UnsupportedGuestError",
                 "KeyboardInterrupt"} :
        /\ IF o = "ok"
           THEN pc' = "stop_encryptor" /\ UNCHANGED err
           ELSE err' = o /\ pc' = "finally"
        /\ hist' = [Hist(o, FALSE) EXCEPT
                      !.console = @ \/ (o = "EncryptionError")]
    /\ loc' = [loc EXCEPT !.status_polled = TRUE]
    /\ UNCHANGED <<wf, inst, vol, snap, sg, image, cu>>

\* stop_instance and _wait_for_instance(state='stopped') on the encryptor.
stop_encryptor ==
    /\ wf = "encrypt" /\ pc = "stop_encryptor"
    /\ \E o \in {<<"EC2ResponseError", "running">>}
                \cup WaitResults("stopping", "stopped") :
        /\ inst' = [inst EXCEPT !["encryptor"] = o[2]]
        /\ vol' = VolIfTerminated("encryptor", o[2])
        /\ IF o[1] = "ok"
           THEN pc' = "snapshot_volumes" /\ UNCHANGED err
           ELSE err' = o[1] /\ pc' = "finally"
        /\ hist' = Hist(o[1], FALSE)
    /\ UNCHANGED <<wf, snap, sg, image, loc, cu>>

\* The snapshots encrypt() creates, in the order it creates them.
EncryptorSnapshotOrder == <<"snap_guest", "snap_bsd", "snap_grub", "snap_log">>

\* Four create_snapshot calls; the k-th may raise after k-1 were created.
snapshot_volumes ==
    /\ wf = "encrypt" /\ pc = "snapshot_volumes"
    /\ \E k \in 0..4 :
        /\ snap' = [s \in Snapshots |->
                      IF \E j \in 1..k : EncryptorSnapshotOrder[j] = s
                      THEN "pending" ELSE snap[s]]
        /\ IF k = 4
           THEN pc' = "wait_for_snapshots" /\ UNCHANGED err
           ELSE err' = "EC2ResponseError" /\ pc' = "finally"
    /\ UNCHANGED <<wf, inst, vol, sg, image, loc, cu, hist>>

\* wait_for_snapshots on the four snapshots: all completed, or one of them
\* in error (the others still pending), or the poll raises.
encrypt_wait_for_snapshots ==
    /\ wf = "encrypt" /\ pc = "wait_for_snapshots"
    /\ \/ /\ snap' = [s \in Snapshots |->
                        IF s \in EncryptorSnapshots THEN "completed" ELSE snap[s]]
          /\ pc' = "terminate_encryptor"
          /\ UNCHANGED <<err, hist>>
       \/ \E bad \in EncryptorSnapshots :
          /\ snap' = [snap EXCEPT ![bad] = "error"]
          /\ err' = "SnapshotError" /\ pc' = "finally"
          /\ UNCHANGED hist
       \/ \E o \in {"EC2ResponseError", "KeyboardInterrupt"} :
          /\ err' = o /\ pc' = "finally"
          /\ hist' = Hist(o, FALSE)
          /\ UNCHANGED snap
    /\ UNCHANGED <<wf, inst, vol, sg, image, loc, cu>>

terminate_encryptor ==
    /\ wf = "encrypt" /\ pc = "terminate_encryptor"
    /\ terminate_instance("encryptor", "encryptor_instance", "register_new_ami")

\* Outcomes <<result, image state>> of register_new_ami: get_image twice,
\* register_image, _wait_for_image, create_tags.
RegisterResults ==
    {<<"BracketError", "absent">>, <<"EC2ResponseError", "absent">>,
     <<"UnboundLocalError", "absent">>, <<"BracketError", "pending">>,
     <<"BracketError", "failed">>, <<"KeyboardInterrupt", "pending">>,
     <<"EC2ResponseError", "available">>, <<"ok", "available">>}

register_new_ami ==
    /\ wf = "encrypt" /\ pc = "register_new_ami"
    /\ \E o \in RegisterResults :
        /\ image' = o[2]
        /\ IF o[1] = "ok"
           THEN /\ loc' = [loc EXCEPT !.ami = "ami"]
                /\ pc' = "finally"
                /\ UNCHANGED err
           ELSE /\ err' = o[1]
                /\ pc' = "finally"
                /\ UNCHANGED loc
        /\ hist' = Hist(o[1], FALSE)
    /\ UNCHANGED <<wf, inst, vol, snap, sg, cu>>

\* The finally block of encrypt(): only the instances, the snapshot and the
\* group that encrypt() still holds a reference to are handed to _clean_up.
FinallyInstanceIds ==
    SeqOfSet(InstanceOrder,
             {loc.snapshotter_instance, loc.encryptor_instance} \ {None})

FinallySnapshotIds == SeqOfSet(SnapshotOrder, {loc.snapshot_id} \ {None})

\* Every group the instances were launched with, the caller's included.
FinallyAllGroupIds == SeqOfSet(SecurityGroupOrder, loc.security_group_ids)

FinallyGroupIds == SeqOfSet(SecurityGroupOrder, {loc.temp_sg_id} \ {None})

\* get_volumes(tag_key=TAG_ENCRYPTOR_SESSION_ID, ...): the volumes that exist
\* and carry the session tag.
TaggedVolumes == {v \in Volumes : vol[v].st # "absent" /\ vol[v].tag}

\* volume_ids stays None when get_volumes raises: both handlers only log.
FinallyVolumeIds(queryOk) ==
    IF queryOk THEN List(SeqOfSet(VolumeOrder, TaggedVolumes)) ELSE NoList

Frame(instances, volumes, snapshots, groups) ==
    [instance_ids |-> instances, snapshot_ids |-> snapshots,
     volume_ids |-> volumes, security_group_ids |-> groups,
     terminated |-> <<>>, i |-> 1, round |-> 1, after1 |-> {}]

encrypt_finally ==
    /\ wf = "encrypt" /\ pc = "finally"
    /\ \E queryOk \in BOOLEAN :
        cu' = Frame(FinallyInstanceIds, FinallyVolumeIds(queryOk),
                    FinallySnapshotIds, FinallyGroupIds)
    /\ hist' = [hist EXCEPT !.cleanupCalls = @ + 1]
    /\ pc' = "cu_terminate"
    /\ UNCHANGED <<wf, err, inst, vol, snap, sg, image, loc>>

(***************************************************************************)
(* _clean_up() of encrypt_ami.py.                                          *)
(***************************************************************************)

\* An instance that is neither absent nor on its way out.
AllocatedInstance(i) == inst[i] \notin {"none", "shutting-down", "terminated"}

\* A volume that exists and does not go away with a terminating instance.
AllocatedVolume(v) ==
    \/ vol[v].st = "avail"
    \/ /\ vol[v].st = "inuse"
       /\ ~(vol[v].dot /\ inst[vol[v].at] \in {"shutting-down", "terminated"})

\* The resources of the session the provider still holds.
AllocatedResources ==
    {i \in Instances : AllocatedInstance(i)}
    \cup {v \in Volumes : AllocatedVolume(v)}
    \cup {s \in Snapshots : snap[s] # "absent"}
    \cup {g \in SecurityGroups : sg[g].st = "present"}

\* The ids _clean_up was given.
GivenResources ==
    Range(cu.instance_ids) \cup Range(cu.snapshot_ids)
    \cup Range(cu.volume_ids.ids) \cup Range(cu.security_group_ids)

\* Some instance of the session has not reached the terminated state.
InstanceStillLive == \E i \in Instances : Live(i)

\* Control leaves _clean_up, by return or (raised) by an exception.  In
\* encrypt() that ends the finally block; the stand-alone workflow invokes
\* _clean_up a second time with the same arguments.
clean_up_exit(raised) ==
    /\ IF wf = "cleanup" /\ cu.round = 1
       THEN /\ pc' = "cu_terminate"
            /\ cu' = [cu EXCEPT !.i = 1, !.terminated = <<>>, !.round = 2,
                                !.after1 = AllocatedResources \cap GivenResources]
            /\ hist' = [hist EXCEPT !.cleanupCalls = @ + 1,
                                    !.raised = Append(@, raised)]
            /\ UNCHANGED err
       ELSE /\ pc' = "done"
            /\ cu' = [cu EXCEPT !.i = 1]
            /\ hist' = [hist EXCEPT !.raised = Append(@, raised)]
            /\ err' = IF raised THEN "TypeError" ELSE err

\* for instance_id in instance_ids: terminate_instance, failures logged.
clean_up_terminate ==
    /\ wf \in {"encrypt", "cleanup"} /\ pc = "cu_terminate"
    /\ IF cu.i > Len(cu.instance_ids)
       THEN /\ pc' = "cu_snapshots"
            /\ cu' = [cu EXCEPT !.i = 1]
            /\ UNCHANGED <<inst, hist>>
       ELSE LET id == cu.instance_ids[cu.i] IN
            \E o \in TerminateResults(id) :
                /\ inst' = [inst EXCEPT ![id] = o[2]]
                /\ cu' = [cu EXCEPT !.i = @ + 1,
                            !.terminated = IF o[1] THEN Append(@, id) ELSE @]
                /\ hist' = [hist EXCEPT !.termCalls = @ \cup {id},
                                        !.tdFailed = @ \/ ~o[1]]
                /\ UNCHANGED pc
    /\ UNCHANGED <<wf, err, vol, snap, sg, image, loc>>

\* for snapshot_id in snapshot_ids: delete_snapshot, failures logged.
clean_up_snapshots ==
    /\ wf \in {"encrypt", "cleanup"} /\ pc = "cu_snapshots"
    /\ IF cu.i > Len(cu.snapshot_ids)
       THEN /\ pc' = "cu_wait"
            /\ cu' = [cu EXCEPT !.i = 1]
            /\ UNCHANGED <<snap, hist>>
       ELSE LET id == cu.snapshot_ids[cu.i] IN
            \E ok \in DeleteSnapshotResults(id) :
                /\ snap' = IF ok THEN [snap EXCEPT ![id] = "absent"] ELSE snap
                /\ cu' = [cu EXCEPT !.i = @ + 1]
                /\ hist' = [hist EXCEPT !.delCalls = @ \cup {id},
                                        !.tdFailed = @ \/ ~ok]
                /\ UNCHANGED pc
    /\ UNCHANGED <<wf, err, inst, vol, sg, image, loc>>

\* for id in terminated_instance_ids: _wait_for_instance(state='terminated');
\* whatever the wait raises is logged and swallowed.
clean_up_wait ==
    /\ wf \in {"encrypt", "cleanup"} /\ pc = "cu_wait"
    /\ IF cu.i > Len(cu.terminated)
       THEN /\ pc' = "cu_volumes"
            /\ cu' = [cu EXCEPT !.i = 1]
            /\ UNCHANGED <<inst, vol>>
       ELSE LET id == cu.terminated[cu.i] IN
            \E o \in WaitResults(inst[id], "terminated") :
                /\ inst' = [inst EXCEPT ![id] = o[2]]
                /\ vol' = VolIfTerminated(id, o[2])
                /\ cu' = [cu EXCEPT !.i = @ + 1]
                /\ UNCHANGED pc
    /\ UNCHANGED <<wf, err, snap, sg, image, loc, hist>>

\* for volume_id in volume_ids: delete_volume, failures logged.  Iterating
\* over None raises TypeError out of _clean_up.
clean_up_volumes ==
    /\ wf \in {"encrypt", "cleanup"} /\ pc = "cu_volumes"
    /\ IF cu.volume_ids.isNone
       THEN /\ clean_up_exit(TRUE)
            /\ UNCHANGED vol
       ELSE IF cu.i > Len(cu.volume_ids.ids)
       THEN /\ pc' = "cu_groups"
            /\ cu' = [cu EXCEPT !.i = 1]
            /\ UNCHANGED <<vol, hist, err>>
       ELSE LET id == cu.volume_ids.ids[cu.i] IN
            \E ok \in DeleteVolumeResults(id) :
                /\ vol' = IF ok THEN [vol EXCEPT ![id] = NoVolume] ELSE vol
                /\ cu' = [cu EXCEPT !.i = @ + 1]
                /\ hist' = [hist EXCEPT !.delCalls = @ \cup {id},
                                        !.tdFailed = @ \/ ~ok,
                                        !.orderViol = @ \/ InstanceStillLive]
                /\ UNCHANGED <<pc, err>>
    /\ UNCHANGED <<wf, inst, snap, sg, image, loc>>

\* for sg_id in security_group_ids: delete_security_group, failures logged.
clean_up_groups ==
    /\ wf \in {"encrypt", "cleanup"} /\ pc = "cu_groups"
    /\ IF cu.i > Len(cu.security_group_ids)
       THEN /\ clean_up_exit(FALSE)
            /\ UNCHANGED sg
       ELSE LET id == cu.security_group_ids[cu.i] IN
            \E ok \in DeleteGroupResults(id) :
                /\ sg' = IF ok THEN [sg EXCEPT ![id] = NoGroup] ELSE sg
                /\ cu' = [cu EXCEPT !.i = @ + 1]
                /\ hist' = [hist EXCEPT !.delCalls = @ \cup {id},
                                        !.tdFailed = @ \/ ~ok,
                                        !.orderViol = @ \/ InstanceStillLive]
                /\ UNCHANGED <<pc, err>>
    /\ UNCHANGED <<wf, inst, vol, snap, image, loc>>

\* _clean_up called on its own, twice, with arguments encrypt() can pass:
\* ids of resources of the session, and volume_ids None after a failed query.
CleanUpVolumes == {"vroot", "sda5"}

InitCleanUp ==
    /\ wf = "cleanup"
    /\ pc = "cu_terminate"
    /\ err = "none"
    /\ image = "absent"
    /\ snap = [NoSnapshots EXCEPT !["orig"] = "completed"]
    /\ sg = [Groups(FALSE) EXCEPT !["sg_temp"] = [st |-> "present", tag |-> TRUE]]
    /\ loc = EncryptLocals({"sg_temp"}, FALSE)
    /\ \E is \in SUBSET {"snapshotter", "encryptor"},
          vs \in SUBSET CleanUpVolumes, queryOk \in BOOLEAN,
          ss \in SUBSET {"orig"}, gs \in SUBSET {"sg_temp"},
          detached \in BOOLEAN :
        /\ inst = [i \in Instances |-> IF i \in is THEN "running" ELSE "none"]
        /\ vol = [v \in Volumes |->
                    IF v \notin CleanUpVolumes THEN NoVolume
                    ELSE LET owner == IF v = "vroot" THEN "snapshotter"
                                      ELSE "encryptor" IN
                         IF owner \in is /\ ~detached
                         THEN Attached(owner, TRUE)
                         ELSE [st |-> "avail", at |-> "none", dot |-> FALSE,
                               tag |-> TRUE]]
        /\ cu = Frame(SeqOfSet(InstanceOrder, is),
                      IF queryOk THEN List(SeqOfSet(VolumeOrder, vs)) ELSE NoList,
                      SeqOfSet(SnapshotOrder, ss),
                      SeqOfSet(SecurityGroupOrder, gs))
    /\ hist = [NoHistory EXCEPT !.cleanupCalls = 1]

(***************************************************************************)
(* update_ami() of aws/update_ami.py.                                      *)
(***************************************************************************)

MV_ROOT_DEVICE_NAME == "/dev/sda1"
GUEST_ROOT_DEVICE_NAME == "/dev/sdf"

\* The type and IOPS the guest root volume may have before the update, as
\* get_volume reports them.
GuestRootVolumes ==
    {[type |-> "standard", iops |-> None],
     [type |-> "gp2", iops |-> "100"], [type |-> "gp2", iops |-> "300"],
     [type |-> "io1", iops |-> "1000"], [type |-> "io1", iops |-> "2000"]}

\* encrypted_guest.block_device_mapping: the devices of the guest instance;
\* the mapping of an instance carries neither volume type nor IOPS.
GuestBdm ==
    [d \in {MV_ROOT_DEVICE_NAME, GUEST_ROOT_DEVICE_NAME} |->
        [volume_type |-> None, iops |-> None, delete_on_termination |-> TRUE]]

UpdateLocals(groups, subnet, root) ==
    [security_group_ids |-> groups,
     guest_root |-> root,
     guest_bdm |-> GuestBdm,
     create_image_bdm |-> {},
     subnet_id |-> subnet,
     encrypted_guest |-> None,
     updater |-> None,
     new_mv_vol_id |-> None,
     temp_sg_id |-> None,
     ami |-> None]

InitUpdate ==
    /\ wf = "update"
    /\ pc = "launch_guest"
    /\ err = "none"
    /\ inst = NoInstances
    /\ vol = NoVolumes
    /\ snap = NoSnapshots
    /\ image = "absent"
    /\ \E userGroup \in BOOLEAN, subnet \in BOOLEAN, root \in GuestRootVolumes :
        /\ sg = Groups(userGroup)
        /\ loc = UpdateLocals(IF userGroup THEN {"sg_user"} ELSE {}, subnet,
                              root)
    /\ cu = NoFrame
    /\ hist = NoHistory

\* An exception leaves the try block of update_ami(): control goes to finally.
UpdateRaise(e) == err' = e /\ pc' = "update_finally"

\* One step of update_ami() that only waits or calls the provider: it leaves
\* instance i in state o[2] and goes on to `next`, or raises o[1].
UpdateInstanceStep(i, o, next) ==
    /\ inst' = [inst EXCEPT ![i] = o[2]]
    /\ vol' = VolIfTerminated(i, o[2])
    /\ IF o[1] = "ok" THEN pc' = next /\ UNCHANGED err ELSE UpdateRaise(o[1])
    /\ hist' = Hist(o[1], FALSE)
    /\ UNCHANGED <<wf, snap, sg, image, loc, cu>>

\* get_image, run_instance (the guest is referenced as soon as it exists)
\* and create_tags.
update_launch_guest ==
    /\ wf = "update" /\ pc = "launch_guest"
    /\ \E o \in {<<"EC2ResponseError", FALSE>>, <<"EC2ResponseError", TRUE>>,
                 <<"ok", TRUE>>} :
        /\ IF o[2]
           THEN /\ inst' = [inst EXCEPT !["guest"] = "pending"]
                /\ vol' = [vol EXCEPT !["g_sda1"] = Attached("guest", FALSE),
                                      !["g_sdf"] = Attached("guest", FALSE)]
                /\ loc' = [loc EXCEPT !.encrypted_guest = "guest"]
           ELSE UNCHANGED <<inst, vol, loc>>
        /\ IF o[1] = "ok" THEN pc' = "update_security_group" /\ UNCHANGED err
           ELSE UpdateRaise(o[1])
        /\ hist' = Hist(o[1], FALSE)
    /\ UNCHANGED <<wf, snap, sg, image, cu>>

\* create_encryptor_security_group of aws_service: the group is created and
\* session-tagged, or the call fails and no group exists.
CreateGroupResults == {<<"EC2ResponseError", FALSE>>, <<"ok", TRUE>>}

\* A temporary group is created only when the caller supplied none.
update_security_group ==
    /\ wf = "update" /\ pc = "update_security_group"
    /\ IF loc.security_group_ids # {}
       THEN /\ pc' = "launch_updater"
            /\ UNCHANGED <<err, sg, loc>>
       ELSE \E o \in CreateGroupResults :
            /\ sg' = [sg EXCEPT !["sg_temp"] =
                        IF o[2] THEN [st |-> "present", tag |-> TRUE] ELSE NoGroup]
            /\ IF o[1] = "ok"
               THEN /\ loc' = [loc EXCEPT !.temp_sg_id = "sg_temp",
                                          !.security_group_ids = {"sg_temp"}]
                    /\ pc' = "launch_updater"
                    /\ UNCHANGED err
               ELSE /\ UpdateRaise(o[1])
                    /\ UNCHANGED loc
    /\ UNCHANGED <<wf, inst, vol, snap, image, cu, hist>>

\* run_instance (the updater is referenced as soon as it exists), create_tags.
update_launch_updater ==
    /\ wf = "update" /\ pc = "launch_updater"
    /\ \E o \in {<<"EC2ResponseError", FALSE>>, <<"EC2ResponseError", TRUE>>,
                 <<"ok", TRUE>>} :
        /\ IF o[2]
           THEN /\ inst' = [inst EXCEPT !["updater"] = "pending"]
                /\ vol' = [vol EXCEPT !["u_sda1"] = Attached("updater", FALSE)]
                /\ loc' = [loc EXCEPT !.updater = "updater"]
           ELSE UNCHANGED <<inst, vol, loc>>
        /\ IF o[1] = "ok" THEN pc' = "wait_guest_running" /\ UNCHANGED err
           ELSE UpdateRaise(o[1])
        /\ hist' = Hist(o[1], FALSE)
    /\ UNCHANGED <<wf, snap, sg, image, cu>>

\* wait_for_instance(aws_svc, encrypted_guest.id, state="running")
update_wait_guest_running ==
    /\ wf = "update" /\ pc = "wait_guest_running"
    /\ \E o \in WaitResults(inst["guest"], "running") :
        UpdateInstanceStep("guest", o, "stop_guest")

\* aws_svc.stop_instance(encrypted_guest.id)
update_stop_guest ==
    /\ wf = "update" /\ pc = "stop_guest"
    /\ \E o \in {<<"EC2ResponseError", inst["guest"]>>, <<"ok", "stopping">>} :
        UpdateInstanceStep("guest", o, "wait_updater_running")

\* updater = wait_for_instance(aws_svc, updater.id, state="running")
update_wait_updater_running ==
    /\ wf = "update" /\ pc = "wait_updater_running"
    /\ \E o \in WaitResults(inst["updater"], "running") :
        UpdateInstanceStep("updater", o, "update_wait_for_encryptor_up")

\* wait_for_encryptor_up(enc_svc, Deadline(600)); the handler raises again.
update_wait_for_encryptor_up ==
    /\ wf = "update" /\ pc = "update_wait_for_encryptor_up"
    /\ \E o \in {"ok", "BracketError", "KeyboardInterrupt"} :
        UpdateInstanceStep("updater", <<o, inst["updater"]>>,
                           "update_wait_for_encryption")

\* wait_for_encryption(enc_svc); on an Exception the updater is stopped
\* (stop_and_wait, which may raise in its turn), its console is logged and
\* the exception is raised again.  An interrupt is no Exception.
update_wait_for_encryption ==
    /\ wf = "update" /\ pc = "update_wait_for_encryption"
    /\ \E o \in {<<"ok", "running">>, <<"KeyboardInterrupt", "running">>,
                 <<"EncryptionError", "stopped">>,
                 <<"UnsupportedGuestError", "stopped">>,
                 <<"InstanceError", "stopping">>,
                 <<"EC2ResponseError", "running">>} :
        UpdateInstanceStep("updater", o, "stop_updater")

\* stop_instance(updater), then both instances are awaited in state stopped.
update_stop_updater ==
    /\ wf = "update" /\ pc = "stop_updater"
    /\ \/ UpdateInstanceStep("updater", <<"EC2ResponseError", "running">>,
                             "preserve")
       \/ \E g \in WaitResults(inst["guest"], "stopped") :
            /\ g[1] # "ok"
            /\ inst' = [inst EXCEPT !["guest"] = g[2], !["updater"] = "stopping"]
            /\ vol' = VolIfTerminated("guest", g[2])
            /\ UpdateRaise(g[1])
            /\ hist' = Hist(g[1], FALSE)
            /\ UNCHANGED <<wf, snap, sg, image, loc, cu>>
       \/ /\ <<"ok", "stopped">> \in WaitResults(inst["guest"], "stopped")
          /\ \E u \in WaitResults("stopping", "stopped") :
            /\ inst' = [inst EXCEPT !["guest"] = "stopped", !["updater"] = u[2]]
            /\ vol' = VolIfTerminated("updater", u[2])
            /\ IF u[1] = "ok" THEN pc' = "preserve" /\ UNCHANGED err
               ELSE UpdateRaise(u[1])
            /\ hist' = Hist(u[1], FALSE)
            /\ UNCHANGED <<wf, snap, sg, image, loc, cu>>

\* get_volume on the volume behind device d of the guest.
GetVolume(d) ==
    IF d = GUEST_ROOT_DEVICE_NAME THEN loc.guest_root
    ELSE [type |-> "gp2", iops |-> "100"]

\* Variant: the IOPS setting is not carried over.
PreserveTypeOnly(entry, d, volume) == [entry EXCEPT !.volume_type = volume.type]

\* The body of the loop of step 3 for device d: the volume type is carried
\* over, the IOPS setting for the guest root device when the type is io1.
Preserve(entry, d, volume) ==
    [entry EXCEPT
        !.volume_type = volume.type,
        !.iops = IF d = GUEST_ROOT_DEVICE_NAME /\ volume.type = "io1"
                 THEN volume.iops ELSE @]

\* Step 3: get_volume for every device of the guest.
update_preserve ==
    /\ wf = "update" /\ pc = "preserve"
    /\ \/ /\ UpdateRaise("EC2ResponseError")
          /\ UNCHANGED loc
       \/ /\ loc' = [loc EXCEPT !.guest_bdm =
                        [d \in DOMAIN @ |-> Preserve(@[d], d, GetVolume(d))]]
          /\ pc' = "detach_old"
          /\ UNCHANGED err
    /\ UNCHANGED <<wf, inst, vol, snap, sg, image, cu, hist>>

\* Step 4: detach the old metavisor volume from the guest and delete it.
update_detach_old ==
    /\ wf = "update" /\ pc = "detach_old"
    /\ \/ /\ UpdateRaise("EC2ResponseError")          \* detach_volume raises
          /\ UNCHANGED <<vol, hist>>
       \/ \E ok \in BOOLEAN :                      \* detached: now available
          /\ vol' = [vol EXCEPT !["g_sda1"] =
                       IF ok THEN NoVolume
                       ELSE [@ EXCEPT !.st = "avail", !.at = "none"]]
          /\ hist' = Hist("none", ~ok)
          /\ IF ok THEN pc' = "detach_new" /\ UNCHANGED err
             ELSE UpdateRaise("EC2ResponseError")     \* delete_volume raises
    /\ UNCHANGED <<wf, inst, snap, sg, image, loc, cu>>

\* Step 5: the id of the new metavisor volume is recorded, then the volume
\* is detached from the updater.
update_detach_new ==
    /\ wf = "update" /\ pc = "detach_new"
    /\ loc' = [loc EXCEPT !.new_mv_vol_id = "u_sda1"]
    /\ \/ /\ UpdateRaise("EC2ResponseError")
          /\ UNCHANGED vol
       \/ /\ vol' = [vol EXCEPT !["u_sda1"] =
                       [@ EXCEPT !.st = "avail", !.at = "none", !.dot = FALSE]]
          /\ pc' = "attach_new"
          /\ UNCHANGED err
    /\ UNCHANGED <<wf, inst, snap, sg, image, cu, hist>>

\* Step 6: attach_volume to the guest, wait_for_volume_attached.
update_attach_new ==
    /\ wf = "update" /\ pc = "attach_new"
    /\ \E o \in {<<"EC2ResponseError", FALSE>>, <<"EC2ResponseError", TRUE>>,
                 <<"InstanceError", TRUE>>, <<"KeyboardInterrupt", TRUE>>,
                 <<"ok", TRUE>>} :
        /\ vol' = IF o[2]
                  THEN [vol EXCEPT !["u_sda1"] =
                          [@ EXCEPT !.st = "inuse", !.at = "guest"]]
                  ELSE vol
        /\ IF o[1] = "ok"
           THEN /\ loc' = [loc EXCEPT
                     !.guest_bdm[MV_ROOT_DEVICE_NAME] =
                        [@ EXCEPT !.delete_on_termination = TRUE,
                                  !.volume_type = "gp2"]]
                /\ pc' = "create_image"
                /\ UNCHANGED err
           ELSE /\ UpdateRaise(o[1])
                /\ UNCHANGED loc
        /\ hist' = Hist(o[1], FALSE)
    /\ UNCHANGED <<wf, inst, snap, sg, image, cu>>

\* Steps 7 and 8: create_image with guest_bdm as block device mapping,
\* wait_for_image, get_image and create_tags.
update_create_image ==
    /\ wf = "update" /\ pc = "create_image"
    /\ \E o \in {<<"EC2ResponseError", "absent">>, <<"BracketError", "pending">>,
                 <<"BracketError", "failed">>, <<"KeyboardInterrupt", "pending">>,
                 <<"EC2ResponseError", "available">>, <<"ok", "available">>} :
        /\ image' = o[2]
        /\ loc' = [loc EXCEPT
                     !.create_image_bdm = {loc.guest_bdm},
                     !.ami = IF o[1] = "ok" THEN "ami" ELSE @]
        /\ IF o[1] = "ok"
           THEN pc' = "update_finally" /\ UNCHANGED err
           ELSE UpdateRaise(o[1])
        /\ hist' = Hist(o[1], FALSE)
    /\ UNCHANGED <<wf, inst, vol, snap, sg, cu>>

\* The finally block of update_ami(): what it hands to clean_up.
UpdateFinallyInstanceIds ==
    SeqOfSet(InstanceOrder, {loc.encrypted_guest, loc.updater} \ {None})

\* Variant of the finally block that does not hand over the new volume.
UpdateFinallyNoVolumeIds == <<>>

UpdateFinallyVolumeIds == SeqOfSet(VolumeOrder, {loc.new_mv_vol_id} \ {None})

UpdateFinallyGroupIds == SeqOfSet(SecurityGroupOrder, {loc.temp_sg_id} \ {None})

\* Variant of the finally block written as an except clause would not be:
\* it compensates only when the body returned.
update_finally_on_return ==
    /\ wf = "update" /\ pc = "update_finally"
    /\ IF err = "none"
       THEN /\ cu' = Frame(UpdateFinallyInstanceIds, List(UpdateFinallyVolumeIds),
                           <<>>, UpdateFinallyGroupIds)
            /\ hist' = [hist EXCEPT !.cleanupCalls = @ + 1]
            /\ pc' = "clean_up"
       ELSE /\ pc' = "done"
            /\ UNCHANGED <<cu, hist>>
    /\ UNCHANGED <<wf, err, inst, vol, snap, sg, image, loc>>

update_finally ==
    /\ wf = "update" /\ pc = "update_finally"
    /\ cu' = Frame(UpdateFinallyInstanceIds, List(UpdateFinallyVolumeIds),
                   <<>>, UpdateFinallyGroupIds)
    /\ hist' = [hist EXCEPT !.cleanupCalls = @ + 1]
    /\ pc' = "clean_up"
    /\ UNCHANGED <<wf, err, inst, vol, snap, sg, image, loc>>

\* clean_up of aws_service, the compensation pass: every given instance gets
\* a terminate call and, when that succeeded, is awaited in state terminated
\* (the wait may give up); then every given volume and group gets a delete
\* call.  No failure is raised.
clean_up ==
    /\ wf = "update" /\ pc = "clean_up"
    /\ \E called \in SUBSET Range(cu.instance_ids) :
       \E gone \in SUBSET called :
       LET inst1 == [i \in Instances |->
                        IF i \in gone THEN "terminated"
                        ELSE IF i \in called THEN "shutting-down" ELSE inst[i]]
           vol1 == [v \in Volumes |->
                        IF vol[v].st = "inuse" /\ vol[v].at \in gone
                        THEN IF vol[v].dot THEN NoVolume
                             ELSE [vol[v] EXCEPT !.st = "avail", !.at = "none"]
                        ELSE vol[v]]
           deletable == {v \in Range(cu.volume_ids.ids) : vol1[v].st = "avail"}
           free == {g \in Range(cu.security_group_ids) :
                      /\ sg[g].st = "present"
                      /\ inst1["updater"] \in {"none", "terminated"}}
       IN  /\ \A i \in called : inst[i] # "none"
           /\ \E vs \in SUBSET deletable, gs \in SUBSET free :
               /\ inst' = inst1
               /\ vol' = [v \in Volumes |-> IF v \in vs THEN NoVolume ELSE vol1[v]]
               /\ sg' = [g \in SecurityGroups |->
                           IF g \in gs THEN NoGroup ELSE sg[g]]
               /\ hist' = [hist EXCEPT
                     !.termCalls = @ \cup Range(cu.instance_ids),
                     !.delCalls = @ \cup Range(cu.volume_ids.ids)
                                    \cup Range(cu.security_group_ids),
                     !.tdFailed = \/ @
                                  \/ called # Range(cu.instance_ids)
                                  \/ vs # Range(cu.volume_ids.ids)
                                  \/ gs # Range(cu.security_group_ids)]
    /\ pc' = "done"
    /\ UNCHANGED <<wf, err, snap, image, loc, cu>>

(***************************************************************************)
(* encrypt() of encrypt_gce_image.py.  loc.resources is what the session   *)
(* holds at the provider, loc.stage the try block control is in.           *)
(***************************************************************************)

GceTemporary == {"guest", "guest_disk", "encrypted_disk", "encryptor",
                 "encryptor_disk"}

\* The provider calls of the three try blocks, in program order:
\* <<call, resources created, resources deleted, is a wait>>.
GceSetupCalls ==
    << <<"run_instance", {"guest", "guest_disk"}, {}, FALSE>>,
       <<"delete_instance", {}, {"guest"}, FALSE>>,
       <<"wait_for_detach", {}, {}, TRUE>>,
       <<"get_disk_size", {}, {}, FALSE>>,
       <<"create_disk", {"encrypted_disk"}, {}, FALSE>> >>

GceEncryptorCalls ==
    << <<"run_instance", {"encryptor", "encryptor_disk"}, {}, FALSE>>,
       <<"get_instance_ip", {}, {}, FALSE>>,
       <<"wait_for_encryptor_up", {}, {}, TRUE>>,
       <<"wait_for_encryption", {}, {}, TRUE>>,
       <<"delete_instance", {}, {"encryptor"}, FALSE>> >>

GceImageCalls ==
    << <<"create_snapshot", {"snapshot"}, {}, FALSE>>,
       <<"wait_for_detach", {}, {}, TRUE>>,
       <<"create_gce_image_from_disk", {"image"}, {}, FALSE>>,
       <<"wait_image", {}, {}, TRUE>>,
       <<"wait_snapshot", {}, {}, TRUE>> >>

GceCalls(stage) ==
    CASE stage = 1 -> GceSetupCalls
      [] stage = 2 -> GceEncryptorCalls
      [] stage = 3 -> GceImageCalls

InitGce ==
    /\ wf = "gce"
    /\ pc = "gce_try"
    /\ err = "none"
    /\ inst = NoInstances
    /\ vol = NoVolumes
    /\ snap = NoSnapshots
    /\ sg = Groups(FALSE)
    /\ image = "absent"
    /\ loc = [stage |-> 1, call |-> 1, resources |-> {}]
    /\ cu = NoFrame
    /\ hist = NoHistory

\* gce_svc.cleanup(zone): the session's temporary instances and disks go.
GceCleanup(resources) == resources \ GceTemporary

\* The except clause of the try block an Exception was raised in: the first
\* two call gce_svc.cleanup(zone), the third only logs; each raises again.
GceHandlerCleansUp(stage) == stage \in {1, 2}

\* The next provider call of the current try block succeeds.
gce_call ==
    /\ wf = "gce" /\ pc = "gce_try"
    /\ LET c == GceCalls(loc.stage)[loc.call]
           last == loc.call = Len(GceCalls(loc.stage))
       IN  /\ loc' = [loc EXCEPT
                 !.resources = (@ \cup c[2]) \ c[3],
                 !.call = IF last THEN 1 ELSE @ + 1,
                 !.stage = IF last /\ @ < 3 THEN @ + 1 ELSE @]
           /\ pc' = IF last /\ loc.stage = 3 THEN "gce_return" ELSE "gce_try"
    /\ UNCHANGED <<wf, err, inst, vol, snap, sg, image, cu, hist>>

\* The next provider call raises an Exception: the except clause of its try
\* block runs and the exception leaves encrypt().
gce_call_raises ==
    /\ wf = "gce" /\ pc = "gce_try"
    /\ \E created \in BOOLEAN :
       LET c == GceCalls(loc.stage)[loc.call]
           held == IF created THEN loc.resources \cup c[2] ELSE loc.resources
       IN  IF GceHandlerCleansUp(loc.stage)
           THEN /\ loc' = [loc EXCEPT !.resources = GceCleanup(held)]
                /\ hist' = [hist EXCEPT !.cleanupCalls = @ + 1]
           ELSE /\ loc' = [loc EXCEPT !.resources = held]
                /\ UNCHANGED hist
    /\ err' = "Exception"
    /\ pc' = "done"
    /\ UNCHANGED <<wf, inst, vol, snap, sg, image, cu>>

\* The user interrupts a wait: KeyboardInterrupt is no Exception, so no
\* except clause of encrypt() runs.
gce_interrupt ==
    /\ wf = "gce" /\ pc = "gce_try"
    /\ GceCalls(loc.stage)[loc.call][4]
    /\ err' = "KeyboardInterrupt"
    /\ hist' = [hist EXCEPT !.interrupted = TRUE]
    /\ pc' = "done"
    /\ UNCHANGED <<wf, inst, vol, snap, sg, image, loc, cu>>

\* All three blocks passed: gce_svc.cleanup(zone), return the image name.
gce_return ==
    /\ wf = "gce" /\ pc = "gce_return"
    /\ loc' = [loc EXCEPT !.resources = GceCleanup(@)]
    /\ hist' = [hist EXCEPT !.cleanupCalls = @ + 1]
    /\ pc' = "done"
    /\ UNCHANGED <<wf, err, inst, vol, snap, sg, image, cu>>

(***************************************************************************)
(* wait_for_encryption() of encrypt_ami.py.  Time is counted in polling    *)
(* intervals (one sleep(10)); loc.now is the clock.  loc.seen, loc.incAt,  *)
(* loc.incBefore and loc.lastOk record what the polls reported: the        *)
(* highest percent_complete so far, the time of the last poll that         *)
(* reported a higher one, that time as of the poll before, and whether     *)
(* the last poll succeeded; loc.status is what the last successful poll    *)
(* reported, loc.streak the number of polls that failed in a row up to     *)
(* now and loc.failures the number of polls that failed in all.            *)
(***************************************************************************)

ProgressTimeout == 2        \* progress_timeout, in polling intervals
MaxTime == 13               \* no poll starts that would end after MaxTime
MaxPercent == 2             \* percent_complete ranges over 0..MaxPercent
max_errs == 10

\* Deadline(progress_timeout) of brkt_cli.util, created at time `now`.
Deadline(now) == now + ProgressTimeout

\* Variant: progress is never recognised.
NoProgress(percent_complete, last_progress) == FALSE

\* if percent_complete > last_progress
Progress(percent_complete, last_progress) == percent_complete > last_progress

\* What enc_svc.get_status() may report: <<state, percent_complete,
\* failure_code>>.
Statuses ==
    ({"encrypting", "successful"} \X (0..MaxPercent) \X {"none"})
    \cup ({"failed"} \X (0..MaxPercent)
            \X {"none", "unsupported_guest", "other"})

InitWaitForEncryption ==
    /\ wf = "wfe"
    /\ pc = "wfe_loop"
    /\ err = "none"
    /\ inst = NoInstances
    /\ vol = NoVolumes
    /\ snap = NoSnapshots
    /\ sg = Groups(FALSE)
    /\ image = "absent"
    /\ loc = [err_count |-> 0, last_progress |-> 0, deadline |-> Deadline(0),
              now |-> 0, seen |-> 0, incAt |-> 0, incBefore |-> 0,
              lastOk |-> FALSE, status |-> <<"none", 0, "none">>,
              streak |-> 0, failures |-> 0, result |-> "none"]
    /\ cu = NoFrame
    /\ hist = NoHistory

\* The function is left: by return (result "ok") or by an exception.
WfeExit(l, result, e) ==
    /\ loc' = [l EXCEPT !.result = result]
    /\ err' = e
    /\ pc' = "done"

\* Variant: a status does not reset the count of failed polls.
ErrCountKept(err_count) == err_count

\* status = enc_svc.get_status(); err_count = 0
ErrCountAfterStatus(err_count) == 0

\* One iteration of the while loop in which get_status() raises.
wfe_poll_fails ==
    /\ wf = "wfe" /\ pc = "wfe_loop"
    /\ loc.err_count < max_errs
    /\ \E d \in 1..MaxStep :
        /\ loc.now + d <= MaxTime
        /\ loc' = [loc EXCEPT !.now = @ + d, !.err_count = @ + 1,
                              !.incBefore = loc.incAt, !.lastOk = FALSE,
                              !.streak = @ + 1, !.failures = @ + 1]
    /\ UNCHANGED <<wf, pc, err, inst, vol, snap, sg, image, cu, hist>>

\* One iteration of the while loop in which get_status() returns a status.
wfe_poll ==
    /\ wf = "wfe" /\ pc = "wfe_loop"
    /\ loc.err_count < max_errs
    /\ \E d \in 1..MaxStep, status \in Statuses :
       LET now == loc.now + d
           state == status[1]
           percent_complete == status[2]
           polled == [loc EXCEPT
                        !.now = now, !.err_count = ErrCountAfterStatus(@),
                        !.lastOk = TRUE, !.status = status, !.streak = 0,
                        !.incBefore = loc.incAt,
                        !.incAt = IF percent_complete > loc.seen THEN now ELSE @,
                        !.seen = IF percent_complete > @
                                 THEN percent_complete ELSE @]
           progressed == IF Progress(percent_complete, loc.last_progress)
                         THEN [polled EXCEPT !.last_progress = percent_complete,
                                             !.deadline = Deadline(now)]
                         ELSE polled
       IN  /\ now <= MaxTime
           /\ IF is_expired(loc.deadline, now)
              THEN WfeExit(polled, "stall", "EncryptionError")
              ELSE CASE state = "successful" -> WfeExit(progressed, "ok", "none")
                     [] state = "failed" /\ status[3] = "unsupported_guest" ->
                            WfeExit(progressed, "unsupported",
                                    "UnsupportedGuestError")
                     [] state = "failed" /\ status[3] # "unsupported_guest" ->
                            WfeExit(progressed, "failed", "EncryptionError")
                     [] OTHER -> /\ loc' = progressed
                                 /\ UNCHANGED <<pc, err>>
    /\ UNCHANGED <<wf, inst, vol, snap, sg, image, cu, hist>>

\* max_errs consecutive polls have failed: the loop ends.
wfe_unavailable ==
    /\ wf = "wfe" /\ pc = "wfe_loop"
    /\ loc.err_count >= max_errs
    /\ WfeExit(loc, "unavailable", "EncryptionError")
    /\ UNCHANGED <<wf, inst, vol, snap, sg, image, cu, hist>>

(***************************************************************************)
(* wait_for_snapshots() of encrypt_ami.py on the four snapshots of the     *)
(* encryptor volumes.  snap holds the status of each snapshot at the       *)
(* provider, loc.observed what the last get_snapshots() returned,          *)
(* loc.tick the parity of the number of polls made and loc.missed whether  *)
(* the loop went on after a poll that had returned a snapshot in error.    *)
(***************************************************************************)

InitWaitForSnapshots ==
    /\ wf = "wfs"
    /\ pc = "wfs_loop"
    /\ err = "none"
    /\ inst = NoInstances
    /\ vol = NoVolumes
    /\ snap \in [Snapshots -> {"absent", "pending", "completed"}]
    /\ snap["orig"] = "absent"
    /\ \A s \in EncryptorSnapshots : snap[s] # "absent"
    /\ sg = Groups(FALSE)
    /\ image = "absent"
    /\ loc = [observed |-> [s \in EncryptorSnapshots |-> "none"],
              polled |-> FALSE, tick |-> FALSE, missed |-> FALSE]
    /\ cu = NoFrame
    /\ hist = NoHistory

\* The provider finishes a pending snapshot, or fails it.
SnapshotSettles ==
    /\ wf = "wfs" /\ pc = "wfs_loop"
    /\ \E s \in EncryptorSnapshots, st \in {"completed", "error"} :
        /\ snap[s] = "pending"
        /\ snap' = [snap EXCEPT ![s] = st]
    /\ UNCHANGED <<wf, pc, err, inst, vol, sg, image, loc, cu, hist>>

\* Variant: snapshots in error are reported only once none is pending.
ErrorIdsWhenSettled(snapshots) ==
    IF \E s \in DOMAIN snapshots : snapshots[s] = "pending" THEN {}
    ELSE {s \in DOMAIN snapshots : snapshots[s] = "error"}

\* error_ids: the snapshots whose status is 'error'.
ErrorIds(snapshots) == {s \in DOMAIN snapshots : snapshots[s] = "error"}

\* done: no snapshot has a status other than 'completed'.
AllCompleted(snapshots) == \A s \in DOMAIN snapshots : snapshots[s] = "completed"

\* One iteration of the while loop: get_snapshots, then raise, return or
\* sleep and go round again.
wfs_poll ==
    /\ wf = "wfs" /\ pc = "wfs_loop"
    /\ LET snapshots == [s \in EncryptorSnapshots |-> snap[s]]
           l == [loc EXCEPT !.observed = snapshots, !.polled = TRUE,
                            !.tick = ~@,
                            !.missed = @ \/ \E s \in EncryptorSnapshots :
                                                loc.observed[s] = "error"]
       IN  /\ loc' = l
           /\ IF ErrorIds(snapshots) # {}
              THEN err' = "SnapshotError" /\ pc' = "done"
              ELSE IF AllCompleted(snapshots)
                   THEN pc' = "done" /\ UNCHANGED err
                   ELSE UNCHANGED <<pc, err>>
    /\ UNCHANGED <<wf, inst, vol, snap, sg, image, cu, hist>>

\* get_snapshots raises.
wfs_poll_raises ==
    /\ wf = "wfs" /\ pc = "wfs_loop"
    /\ err' = "EC2ResponseError"
    /\ pc' = "done"
    /\ UNCHANGED <<wf, inst, vol, snap, sg, image, loc, cu, hist>>

(***************************************************************************)
(* _wait_for_instance() of encrypt_ami.py, waiting for the encryptor       *)
(* instance.  loc.state is the requested state, loc.now the clock in       *)
(* polling intervals (one sleep(2)), loc.observed the state the last       *)
(* get_instance() returned and loc.missed whether the loop went on after   *)
(* a poll that should have ended it.                                       *)
(***************************************************************************)

WaitTimeout == 3            \* timeout, in polling intervals

InstanceStates == {"pending", "running", "stopping", "stopped",
                   "shutting-down", "terminated", "error"}

InitWaitForInstance ==
    /\ wf = "wfi"
    /\ pc = "wfi_loop"
    /\ err = "none"
    /\ \E s \in InstanceStates \ {"error"} :
        inst = [NoInstances EXCEPT !["encryptor"] = s]
    /\ vol = NoVolumes
    /\ snap = NoSnapshots
    /\ sg = Groups(FALSE)
    /\ image = "absent"
    /\ \E state \in {"running", "stopped", "terminated"} :
        loc = [state |-> state, deadline |-> WaitTimeout, now |-> 0,
               observed |-> "none", missed |-> FALSE, result |-> "none"]
    /\ cu = NoFrame
    /\ hist = NoHistory

\* The instance moves on at the provider.
InstanceChanges ==
    /\ wf = "wfi" /\ pc = "wfi_loop"
    /\ \E s \in InstanceStates :
        /\ \/ inst["encryptor"] = "pending" /\ s \in {"running", "error", "terminated"}
           \/ inst["encryptor"] = "running" /\ s \in {"stopping", "shutting-down"}
           \/ inst["encryptor"] = "stopping" /\ s = "stopped"
           \/ inst["encryptor"] = "stopped" /\ s \in {"pending", "shutting-down"}
        /\ inst' = [inst EXCEPT !["encryptor"] = s]
    /\ UNCHANGED <<wf, pc, err, vol, snap, sg, image, loc, cu, hist>>

\* Variant: a terminated instance is never taken as unexpected.
NeverUnexpected(state, observed) == FALSE

\* if state != 'terminated' and instance.state == 'terminated'
UnexpectedlyTerminated(state, observed) ==
    state # "terminated" /\ observed = "terminated"

\* The function is left with `result`, raising e unless e is "none".
WfiExit(l, result, e) ==
    /\ loc' = [l EXCEPT !.result = result]
    /\ err' = e
    /\ pc' = "done"

\* One iteration of the while loop: the deadline has not expired,
\* get_instance returns the instance.
wfi_poll ==
    /\ wf = "wfi" /\ pc = "wfi_loop"
    /\ ~is_expired(loc.deadline, loc.now)
    /\ \E d \in 1..MaxStep :
       LET observed == inst["encryptor"]
           l == [loc EXCEPT
                   !.now = @ + d, !.observed = observed,
                   !.missed = @ \/ loc.observed \in {loc.state, "error"}
                                \/ (/\ loc.observed = "terminated"
                                    /\ loc.state # "terminated")]
       IN  IF observed = loc.state
           THEN WfiExit(l, "returned", "none")
           ELSE IF observed = "error"
           THEN WfiExit(l, "error state", "InstanceError")
           ELSE IF UnexpectedlyTerminated(loc.state, observed)
           THEN WfiExit(l, "unexpectedly terminated", "InstanceError")
           ELSE loc' = l /\ UNCHANGED <<pc, err>>
    /\ UNCHANGED <<wf, inst, vol, snap, sg, image, cu, hist>>

\* get_instance raises: the exception leaves _wait_for_instance.
wfi_poll_raises ==
    /\ wf = "wfi" /\ pc = "wfi_loop"
    /\ ~is_expired(loc.deadline, loc.now)
    /\ \E e \in {"EC2ResponseError", "KeyboardInterrupt"} :
        WfiExit(loc, "raised", e)
    /\ UNCHANGED <<wf, inst, vol, snap, sg, image, cu, hist>>

\* The deadline has expired: the loop ends.
wfi_timeout ==
    /\ wf = "wfi" /\ pc = "wfi_loop"
    /\ is_expired(loc.deadline, loc.now)
    /\ WfiExit(loc, "timed out", "InstanceError")
    /\ UNCHANGED <<wf, inst, vol, snap, sg, image, cu, hist>>

(***************************************************************************)
(* The wait for the guest volume in retrieve_guest_volume_snapshot() of    *)
(* update_encrypted_ami.py.  vol["sda5"].st is the status of the volume    *)
(* created from the snapshot of /dev/sda5, loc.tick the parity of the      *)
(* number of polls made.                                                   *)
(***************************************************************************)

InitWaitForVolume ==
    /\ wf = "wfv"
    /\ pc = "wfv_loop"
    /\ err = "none"
    /\ inst = NoInstances
    /\ vol = [NoVolumes EXCEPT !["sda5"] = [NoVolume EXCEPT !.st = "creating"]]
    /\ snap = NoSnapshots
    /\ sg = Groups(FALSE)
    /\ image = "absent"
    /\ loc = [volume_available |-> FALSE, tick |-> FALSE, result |-> "none"]
    /\ cu = NoFrame
    /\ hist = NoHistory

\* The provider finishes the creation of the volume, or fails it.
VolumeSettles ==
    /\ wf = "wfv" /\ pc = "wfv_loop"
    /\ vol["sda5"].st = "creating"
    /\ \E st \in {"avail", "error"} :
        vol' = [vol EXCEPT !["sda5"] = [@ EXCEPT !.st = st]]
    /\ UNCHANGED <<wf, pc, err, inst, snap, sg, image, loc, cu, hist>>

\* One iteration of `while not volume_available`: sleep, get_all_volumes,
\* return the error message on status error, leave the loop on available.
wfv_poll ==
    /\ wf = "wfv" /\ pc = "wfv_loop"
    /\ ~loc.volume_available
    /\ CASE vol["sda5"].st = "error" ->
                /\ loc' = [loc EXCEPT !.tick = ~@, !.result = "error"]
                /\ pc' = "done"
         [] vol["sda5"].st = "avail" ->
                /\ loc' = [loc EXCEPT !.tick = ~@, !.volume_available = TRUE,
                                      !.result = "available"]
                /\ pc' = "done"
         [] OTHER ->
                /\ loc' = [loc EXCEPT !.tick = ~@]
                /\ UNCHANGED pc
    /\ UNCHANGED <<wf, err, inst, vol, snap, sg, image, cu, hist>>

\* get_all_volumes raises.
wfv_poll_raises ==
    /\ wf = "wfv" /\ pc = "wfv_loop"
    /\ err' = "EC2ResponseError"
    /\ pc' = "done"
    /\ UNCHANGED <<wf, inst, vol, snap, sg, image, loc, cu, hist>>

(***************************************************************************)
(* command_encrypt_ami() of __init__.py.  loc.values are the command-line  *)
(* values, loc.image the attributes of the guest image at the provider     *)
(* and loc.error_msg the result of _validate_guest_ami.                    *)
(***************************************************************************)

TAG_ENCRYPTOR == "BrktEncryptor"

\* The guest images the command is tried on.
GuestImages ==
    [tags : {{}, {TAG_ENCRYPTOR}, {"Name"}, {"Name", TAG_ENCRYPTOR}},
     platform : {"windows", None},
     root_device_type : {"ebs", "instance-store"},
     hypervisor : {"xen", "ovm"}]

InitCommand ==
    /\ wf = "cmd"
    /\ pc = "cmd_validate"
    /\ err = "none"
    /\ inst = NoInstances
    /\ vol = NoVolumes
    /\ snap = NoSnapshots
    /\ image = "absent"
    /\ \E userGroup \in BOOLEAN, subnet \in BOOLEAN, guest \in GuestImages :
        /\ sg = Groups(userGroup)
        /\ loc = [values |-> [security_group_ids |->
                                IF userGroup THEN {"sg_user"} ELSE {},
                              subnet_id |-> subnet],
                  image |-> guest,
                  error_msg |-> None]
    /\ cu = NoFrame
    /\ hist = NoHistory

\* The command ends by raising e.
CommandRaises(e) ==
    /\ err' = e
    /\ pc' = "done"

\* _validate_region, get_encryptor_ami, _parse_tags, _validate_ntp_servers
\* and _connect_and_validate: they pass, reject the values, or a call to
\* the provider made outside a try block raises.
command_validate ==
    /\ wf = "cmd" /\ pc = "cmd_validate"
    /\ \/ pc' = "cmd_validate_guest" /\ UNCHANGED err
       \/ CommandRaises("ValidationError")
       \/ CommandRaises("EC2ResponseError")
    /\ UNCHANGED <<wf, inst, vol, snap, sg, image, loc, cu, hist>>

\* Variant of _validate_guest_ami without the check of the encryptor tag.
validate_untagged_guest_ami(guest) ==
    IF guest.platform = "windows"
    THEN "Windows is not a supported platform"
    ELSE IF guest.root_device_type # "ebs"
    THEN "does not use EBS storage"
    ELSE IF guest.hypervisor # "xen"
    THEN "Only xen is supported"
    ELSE None

\* _validate_guest_ami on an image that _validate_ami has returned: the
\* error string, or None when the image can be encrypted.
validate_guest_ami(guest) ==
    IF TAG_ENCRYPTOR \in guest.tags
    THEN "is already an encrypted image"
    ELSE IF guest.platform = "windows"
    THEN "Windows is not a supported platform"
    ELSE IF guest.root_device_type # "ebs"
    THEN "does not use EBS storage"
    ELSE IF guest.hypervisor # "xen"
    THEN "Only xen is supported"
    ELSE None

\* error_msg = _validate_guest_ami(aws_svc, values.ami); _validate_ami
\* raises ValidationError when get_image raises.
command_validate_guest ==
    /\ wf = "cmd" /\ pc = "cmd_validate_guest"
    /\ \/ /\ CommandRaises("ValidationError")
          /\ loc' = [loc EXCEPT !.error_msg = "Could not find"]
       \/ LET error_msg == validate_guest_ami(loc.image)
          IN  /\ loc' = [loc EXCEPT !.error_msg = error_msg]
              /\ IF error_msg # None
                 THEN CommandRaises("ValidationError")
                 ELSE pc' = "cmd_config" /\ UNCHANGED err
    /\ UNCHANGED <<wf, inst, vol, snap, sg, image, cu, hist>>

\* _parse_brkt_env and the proxy configuration: they pass or reject.
command_config ==
    /\ wf = "cmd" /\ pc = "cmd_config"
    /\ \/ pc' = "cmd_encrypt" /\ UNCHANGED err
       \/ CommandRaises("ValidationError")
    /\ UNCHANGED <<wf, inst, vol, snap, sg, image, loc, cu, hist>>

\* encrypt_ami.encrypt(...) is invoked: control enters encrypt().
command_encrypt ==
    /\ wf = "cmd" /\ pc = "cmd_encrypt"
    /\ wf' = "encrypt"
    /\ pc' = "run_snapshotter"
    /\ loc' = EncryptLocals(loc.values.security_group_ids, loc.values.subnet_id)
    /\ UNCHANGED <<err, inst, vol, snap, sg, image, cu, hist>>

(***************************************************************************)
(* The guest root volume's type and IOPS on their way through encrypt():   *)
(* _snapshot_root_volume captures them, encrypt() hands them on unchanged  *)
(* as vol_type and iops, register_new_ami builds the block device mapping  *)
(* of the new image from them and registers the image.  The instances,    *)
(* volumes and snapshots of the workflow are those of encrypt() above; this*)
(* part keeps the values only.                                             *)
(***************************************************************************)

\* What the block device mapping of the stopped snapshotter instance reports
\* for a root volume: no type and no IOPS, an empty type, or the volume's
\* own values.  The provider decides.
RootVolEntries(volume) ==
    {[volume_type |-> None, iops |-> None],
     [volume_type |-> volume.type, iops |-> volume.iops]}
    \cup (IF volume.type = "standard"
          THEN {[volume_type |-> "", iops |-> None]} ELSE {})

EBSBlockDeviceType(volume_type, snapshot_id, iops) ==
    [volume_type |-> volume_type, snapshot_id |-> snapshot_id, iops |-> iops,
     delete_on_termination |-> TRUE, ephemeral_name |-> None]

Ephemeral(name) ==
    [volume_type |-> None, snapshot_id |-> None, iops |-> None,
     delete_on_termination |-> FALSE, ephemeral_name |-> name]

\* Block device mappings the guest image may have: its root device, and
\* ephemeral drives at /dev/sdb, at /dev/sda5, at both or at neither.
GuestImageMappings ==
    {[d \in {"/dev/sda1"} \cup e |->
        IF d = "/dev/sda1" THEN EBSBlockDeviceType("gp2", "snap-guest", None)
        ELSE Ephemeral("ephemeral0")] : e \in SUBSET {"/dev/sdb", "/dev/sda5"}}

\* Failures of register_image: <<error_code, the message holds an AMI id>>.
RegisterImageErrors ==
    {<<"InvalidAMIID.NotFound", TRUE>>, <<"InvalidAMIID.NotFound", FALSE>>,
     <<"InvalidParameterValue", TRUE>>, <<"InvalidParameterValue", FALSE>>}

InitRegister ==
    /\ wf = "reg"
    /\ pc = "reg_snapshot_root"
    /\ err = "none"
    /\ inst = NoInstances
    /\ vol = NoVolumes
    /\ snap = NoSnapshots
    /\ sg = Groups(FALSE)
    /\ image = "absent"
    /\ \E root \in GuestRootVolumes, bdm \in GuestImageMappings,
          found \in BOOLEAN :
        \E entry \in RootVolEntries(root) :
            loc = [guest_root |-> root,         \* the volume get_volume returns
                   root_vol |-> entry,          \* bdm[root_dev] of the instance
                   guest_bdm |-> bdm,           \* image.block_device_mapping
                   image_found |-> found,       \* get_image(image_id) is not None
                   vol_type |-> None,
                   iops |-> None,
                   new_bdm |-> << >>,
                   registered_bdm |-> {},       \* block_device_map of register_image
                   register_error |-> <<"none", FALSE>>,
                   ami |-> None]
    /\ cu = NoFrame
    /\ hist = NoHistory

RegisterExit(e) ==
    /\ err' = e
    /\ pc' = "done"

\* _snapshot_root_volume returns (snapshot.id, root_dev, vol.size,
\* root_vol.volume_type, root_vol.iops); encrypt() binds the last two to
\* vol_type and iops.
reg_snapshot_root_volume ==
    /\ wf = "reg" /\ pc = "reg_snapshot_root"
    /\ loc' = [loc EXCEPT !.vol_type = loc.root_vol.volume_type,
                          !.iops = loc.root_vol.iops]
    /\ pc' = "reg_new_bdm"
    /\ UNCHANGED <<wf, err, inst, vol, snap, sg, image, cu, hist>>

\* Variant of the mapping that leaves the ephemeral drives of the guest
\* image out.
NewBdmNoEphemeral(vol_type, iops, guest_bdm) ==
    [d \in {"/dev/sda1", "/dev/sda2", "/dev/sda3", "/dev/sda5"} |->
        CASE d = "/dev/sda1" -> EBSBlockDeviceType("gp2", "snap_grub", None)
          [] d = "/dev/sda2" -> EBSBlockDeviceType("gp2", "snap_bsd", None)
          [] d = "/dev/sda3" -> EBSBlockDeviceType("gp2", "snap_log", None)
          [] OTHER -> EBSBlockDeviceType(
                           IF vol_type = "" THEN "standard" ELSE vol_type,
                           "snap_guest", iops)]

\* The mapping of the new image: the three Metavisor devices, the encrypted
\* guest root at /dev/sda5 (an empty volume type is registered as
\* 'standard'), then every ephemeral mapping of the guest image under its
\* own device name.
NewBdm(vol_type, iops, guest_bdm) ==
    [d \in {"/dev/sda1", "/dev/sda2", "/dev/sda3", "/dev/sda5"}
           \cup {k \in DOMAIN guest_bdm : guest_bdm[k].ephemeral_name # None} |->
        IF d \in DOMAIN guest_bdm /\ guest_bdm[d].ephemeral_name # None
        THEN guest_bdm[d]
        ELSE CASE d = "/dev/sda1" -> EBSBlockDeviceType("gp2", "snap_grub", None)
               [] d = "/dev/sda2" -> EBSBlockDeviceType("gp2", "snap_bsd", None)
               [] d = "/dev/sda3" -> EBSBlockDeviceType("gp2", "snap_log", None)
               [] OTHER -> EBSBlockDeviceType(
                                IF vol_type = "" THEN "standard" ELSE vol_type,
                                "snap_guest", iops)]

\* register_new_ami up to the call of register_image: the mapping is built,
\* get_image may fail or find no image.
reg_new_bdm ==
    /\ wf = "reg" /\ pc = "reg_new_bdm"
    /\ \/ /\ RegisterExit("EC2ResponseError")
          /\ UNCHANGED loc
       \/ /\ ~loc.image_found
          /\ RegisterExit("BracketError")
          /\ UNCHANGED loc
       \/ /\ loc.image_found
          /\ loc' = [loc EXCEPT
                       !.new_bdm = NewBdm(loc.vol_type, loc.iops, loc.guest_bdm)]
          /\ pc' = "reg_register_image"
          /\ UNCHANGED err
    /\ UNCHANGED <<wf, inst, vol, snap, sg, image, cu, hist>>

\* The handler of EC2ResponseError around register_image: the id found in
\* the message of an InvalidAMIID.NotFound error is bound to ami; `if not
\* ami` then reads ami, which no statement has bound in any other case.
RecoveredAmi(e) ==
    IF e[1] = "InvalidAMIID.NotFound" /\ e[2] THEN "ami-recovered" ELSE None

reg_register_image ==
    /\ wf = "reg" /\ pc = "reg_register_image"
    /\ \/ /\ loc' = [loc EXCEPT !.registered_bdm = {loc.new_bdm},
                                !.ami = "ami-new"]
          /\ image' = "pending"
          /\ pc' = "reg_wait_for_image"
          /\ UNCHANGED err
       \/ \E e \in RegisterImageErrors :
            /\ loc' = [loc EXCEPT !.registered_bdm = {loc.new_bdm},
                                  !.register_error = e,
                                  !.ami = RecoveredAmi(e)]
            /\ image' = IF e[1] = "InvalidAMIID.NotFound" THEN "pending"
                        ELSE "absent"
            /\ IF RecoveredAmi(e) # None
               THEN pc' = "reg_wait_for_image" /\ UNCHANGED err
               ELSE RegisterExit("UnboundLocalError")
    /\ UNCHANGED <<wf, inst, vol, snap, sg, cu, hist>>

\* _wait_for_image(aws_svc, ami) and create_tags(ami); the id is returned
\* when both succeed.
reg_wait_for_image ==
    /\ wf = "reg" /\ pc = "reg_wait_for_image"
    /\ \E o \in {<<"ok", "available">>, <<"BracketError", "failed">>,
                 <<"BracketError", "pending">>,
                 <<"EC2ResponseError", "available">>} :
        /\ image' = o[2]
        /\ IF o[1] = "ok" THEN pc' = "done" /\ UNCHANGED err
           ELSE RegisterExit(o[1])
    /\ UNCHANGED <<wf, inst, vol, snap, sg, loc, cu, hist>>

(***************************************************************************)
(* _append_suffix() of encrypt_ami.py.  Strings are sequences of           *)
(* characters.                                                             *)
(***************************************************************************)

MaxNameLen == 3             \* longest name given to _append_suffix
MaxSuffixLen == 2           \* longest suffix given to _append_suffix
MaxLength == 4              \* largest max_length given to _append_suffix

Strings(chars, n) == UNION {[1..k -> chars] : k \in 0..n}

\* s[:k] without truncation: the mapping left whole.
NoSlice(s, k) == s

\* s[:k] of Python: the first k characters, or all but the last -k when k
\* is negative.
Slice(s, k) ==
    IF k >= 0 THEN SubSeq(s, 1, IF k < Len(s) THEN k ELSE Len(s))
    ELSE SubSeq(s, 1, IF Len(s) + k > 0 THEN Len(s) + k ELSE 0)

\* max_length = 0 stands for every false value of max_length, None included.
_append_suffix(name, suffix, max_length) ==
    IF suffix = << >> THEN name
    ELSE (IF max_length # 0 THEN Slice(name, max_length - Len(suffix))
          ELSE name) \o suffix

InitAppendSuffix ==
    /\ wf = "sfx"
    /\ pc = "sfx_call"
    /\ err = "none"
    /\ inst = NoInstances
    /\ vol = NoVolumes
    /\ snap = NoSnapshots
    /\ sg = Groups(FALSE)
    /\ image = "absent"
    /\ \E name \in Strings({"a", "b"}, MaxNameLen),
          suffix \in Strings({"a", "b"}, MaxSuffixLen),
          max_length \in 0..MaxLength :
        loc = [name |-> name, suffix |-> suffix, max_length |-> max_length,
               result |-> << >>]
    /\ cu = NoFrame
    /\ hist = NoHistory

append_suffix ==
    /\ wf = "sfx" /\ pc = "sfx_call"
    /\ loc' = [loc EXCEPT
                 !.result = _append_suffix(loc.name, loc.suffix, loc.max_length)]
    /\ pc' = "done"
    /\ UNCHANGED <<wf, err, inst, vol, snap, sg, image, cu, hist>>

(***************************************************************************)
(* _get_updated_image_name() of __init__.py.  util.append_suffix is the    *)
(* _append_suffix above.                                                   *)
(***************************************************************************)

PadLen == 60                \* length of the long part of an image name
MaxParts == 3               \* an image name is made of 1..MaxParts parts

\* ' \(encrypted (\S+)\)' matches in s right after its first i characters:
\* the text " (encrypted ", one or more characters that are not spaces, and
\* a closing parenthesis.
SuffixAt(s, i) ==
    /\ i + 14 <= Len(s)
    /\ SubSeq(s, i + 1, i + 12) =
            <<" ", "(", "e", "n", "c", "r", "y", "p", "t", "e", "d", " ">>
    /\ \E p \in (i + 14)..Len(s) :
        /\ s[p] = ")"
        /\ \A q \in (i + 13)..(p - 1) : s[q] # " "

\* The name with the suffix of the session appended, an earlier suffix kept.
_append_to_image_name(image_name, session_id) ==
    _append_suffix(
        image_name,
        <<" ", "(", "e", "n", "c", "r", "y", "p", "t", "e", "d", " ">>
            \o session_id \o <<")">>,
        128)

\* re.match('(.+) \(encrypted (\S+)\)', image_name): the greedy (.+) takes
\* the longest non-empty head of the name that the rest of the pattern
\* follows; group(1) is that head.
_get_updated_image_name(image_name, session_id) ==
    LET heads == {i \in 1..Len(image_name) : SuffixAt(image_name, i)}
        suffix == <<" ", "(", "e", "n", "c", "r", "y", "p", "t", "e", "d", " ">>
                    \o session_id \o <<")">>
    IN  IF heads # {}
        THEN _append_suffix(
                SubSeq(image_name, 1,
                       CHOOSE i \in heads : \A j \in heads : j <= i),
                suffix, 128)
        ELSE _append_suffix(image_name, suffix, 128)

\* Names of the encrypted guest image: one to MaxParts parts, each a letter,
\* a long run of letters, a suffix of an earlier session, or " x".
ImageNames ==
    LET parts == {<<"a">>, [k \in 1..PadLen |-> "a"], <<" ", "x">>,
                  <<" ", "(", "e", "n", "c", "r", "y", "p", "t", "e", "d",
                    " ", "0", ")">>,
                  <<" ", "(", "e", "n", "c", "r", "y", "p", "t", "e", "d",
                    " ", "1", "f", ")">>}
        Join[ps \in Seq(parts)] ==
            IF ps = << >> THEN << >> ELSE Head(ps) \o Join[Tail(ps)]
    IN  {Join[ps] : ps \in UNION {[1..n -> parts] : n \in 1..MaxParts}}

\* Session ids (make_nonce) of the update sessions.
SessionIds == {<<"2">>, <<"3", "e">>}

InitImageName ==
    /\ wf = "name"
    /\ pc = "name_call"
    /\ err = "none"
    /\ inst = NoInstances
    /\ vol = NoVolumes
    /\ snap = NoSnapshots
    /\ sg = Groups(FALSE)
    /\ image = "absent"
    /\ \E name \in ImageNames :
        loc = [guest_image_name |-> name,   \* name of the first guest image
               image_name |-> name,         \* name of the image being updated
               session_ids |-> << >>,       \* sessions so far
               names |-> << >>]             \* the names they returned
    /\ cu = NoFrame
    /\ hist = NoHistory

\* An update session names its image; a later session with another id
\* updates that image.
get_updated_image_name ==
    /\ wf = "name" /\ pc = "name_call"
    /\ \E session_id \in SessionIds \ Range(loc.session_ids) :
        LET encrypted_ami_name ==
                _get_updated_image_name(loc.image_name, session_id)
        IN  loc' = [loc EXCEPT
                      !.image_name = encrypted_ami_name,
                      !.session_ids = Append(@, session_id),
                      !.names = Append(@, encrypted_ami_name)]
    /\ pc' = IF Len(loc.session_ids) = 1 THEN "done" ELSE "name_call"
    /\ UNCHANGED <<wf, err, inst, vol, snap, sg, image, cu, hist>>

(***************************************************************************)
(* Two sessions that run encrypt() against one provider account, every     *)
(* provider call of one interleaved with the calls of the other.  A        *)
(* resource is <<kind, s>>: the resource of that kind which the provider   *)
(* created for session s.  Each session launches its snapshotter, tags and *)
(* snapshots the root volume, creates its security group, and compensates  *)
(* as encrypt() does: the volumes come from the query by session tag, the  *)
(* rest from the ids the session tracked.                                  *)
(***************************************************************************)

Sessions == {1, 2}

\* get_volumes(tag_key=TAG_ENCRYPTOR_SESSION_ID, tag_value=...) without the
\* value: every volume that carries a session tag.
get_tagged_volumes(res, session_id) ==
    {r \in DOMAIN res : r[1] = "volume" /\ res[r].st = "present"
                        /\ res[r].tag # 0}

\* get_volumes(tag_key=TAG_ENCRYPTOR_SESSION_ID, tag_value=session_id).
get_volumes(res, session_id) ==
    {r \in DOMAIN res : r[1] = "volume" /\ res[r].st = "present"
                        /\ res[r].tag = session_id}

InitSessions ==
    /\ wf = "sessions"
    /\ pc = "running"
    /\ err = "none"
    /\ inst = NoInstances
    /\ vol = NoVolumes
    /\ snap = NoSnapshots
    /\ sg = Groups(FALSE)
    /\ image = "absent"
    /\ loc = [res |-> [r \in {"instance", "volume", "snapshot", "group"}
                              \X Sessions |-> [st |-> "absent", tag |-> 0]],
              ses |-> [s \in Sessions |->
                        [pc |-> "run_snapshotter",
                         session_id |-> s,      \* aws_svc.session_id
                         tracked |-> {},        \* instance, snapshot, group
                         volume_ids |-> {}]],
              calls |-> {}]     \* <<s, call, resource>>: terminate, delete
                                \* and create_tags calls issued so far
    /\ cu = NoFrame
    /\ hist = NoHistory

\* The next provider calls of session s in the try block of encrypt():
\* run_instance, create_tags and create_snapshot on the root volume,
\* create_encryptor_security_group.  The provider applies the session's
\* default tags (get_default_tags) to what the session tags.
session_workflow(s) ==
    /\ wf = "sessions"
    /\ LET me == loc.ses[s]
           made(kind, tag) ==
               [loc.res EXCEPT ![<<kind, s>>] = [st |-> "present", tag |-> tag]]
       IN  \/ /\ me.pc = "run_snapshotter"
              /\ loc' = [loc EXCEPT
                    !.res = [made("instance", me.session_id) EXCEPT
                                ![<<"volume", s>>] = [st |-> "present", tag |-> 0]],
                    !.ses[s].tracked = @ \cup {<<"instance", s>>},
                    !.ses[s].pc = "snapshot_root",
                    !.calls = @ \cup {<<s, "create_tags", <<"instance", s>>>>}]
           \/ /\ me.pc = "snapshot_root"
              /\ loc.res[<<"volume", s>>].st = "present"
              /\ loc' = [loc EXCEPT
                    !.res = [made("snapshot", me.session_id) EXCEPT
                                ![<<"volume", s>>].tag = me.session_id],
                    !.ses[s].tracked = @ \cup {<<"snapshot", s>>},
                    !.ses[s].pc = "security_group",
                    !.calls = @ \cup {<<s, "create_tags", <<"volume", s>>>>}]
           \/ /\ me.pc = "security_group"
              /\ loc' = [loc EXCEPT
                    !.res = made("group", me.session_id),
                    !.ses[s].tracked = @ \cup {<<"group", s>>},
                    !.ses[s].pc = "finally",
                    !.calls = @ \cup {<<s, "create_tags", <<"group", s>>>>}]
    /\ UNCHANGED <<wf, pc, err, inst, vol, snap, sg, image, cu, hist>>

\* A call of session s raises: control goes to its finally block.
session_raises(s) ==
    /\ wf = "sessions"
    /\ loc.ses[s].pc \in {"run_snapshotter", "snapshot_root", "security_group"}
    /\ loc' = [loc EXCEPT !.ses[s].pc = "finally"]
    /\ UNCHANGED <<wf, pc, err, inst, vol, snap, sg, image, cu, hist>>

\* The finally block of session s: the query for the volumes of the session.
session_finally(s) ==
    /\ wf = "sessions"
    /\ loc.ses[s].pc = "finally"
    /\ loc' = [loc EXCEPT
                 !.ses[s].volume_ids = get_volumes(loc.res, loc.ses[s].session_id),
                 !.ses[s].pc = "cu_instance"]
    /\ UNCHANGED <<wf, pc, err, inst, vol, snap, sg, image, cu, hist>>

\* _clean_up of session s, one kind of resource after the other: terminate
\* the tracked instance (its root volume goes with it), delete the tracked
\* snapshot, the volumes of the query and the tracked group.
session_clean_up(s) ==
    /\ wf = "sessions"
    /\ LET me == loc.ses[s]
           kind == CASE me.pc = "cu_instance" -> "instance"
                     [] me.pc = "cu_snapshot" -> "snapshot"
                     [] me.pc = "cu_volume" -> "volume"
                     [] OTHER -> "group"
           ids == IF kind = "volume" THEN me.volume_ids
                  ELSE {r \in me.tracked : r[1] = kind}
           gone == ids \cup {<<"volume", r[2]>> : r \in {i \in ids : i[1] = "instance"}}
       IN  /\ me.pc \in {"cu_instance", "cu_snapshot", "cu_volume", "cu_group"}
           /\ loc' = [loc EXCEPT
                 !.res = [r \in DOMAIN @ |->
                            IF r \in gone THEN [st |-> "absent", tag |-> 0]
                            ELSE @[r]],
                 !.calls = @ \cup {<<s, IF kind = "instance" THEN "terminate"
                                        ELSE "delete", r>> : r \in ids},
                 !.ses[s].pc = CASE me.pc = "cu_instance" -> "cu_snapshot"
                                 [] me.pc = "cu_snapshot" -> "cu_volume"
                                 [] me.pc = "cu_volume" -> "cu_group"
                                 [] OTHER -> "done"]
    /\ UNCHANGED <<wf, pc, err, inst, vol, snap, sg, image, cu, hist>>

(***************************************************************************)
(* The size of the volume that receives the encrypted guest root:          *)
(* /dev/sda5 in run_encryptor_instance() of encrypt_ami.py, the            *)
(* encrypted-image disk in encrypt() of encrypt_gce_image.py.              *)
(***************************************************************************)

MaxRootSize == 8            \* largest size of a guest root volume, in GiB

\* The guest root size taken over as it is.
guest_root_size(root_size, update_ami) == root_size

\* guest_encrypted_root.size of run_encryptor_instance.
guest_encrypted_root_size(root_size, update_ami) ==
    IF ~update_ami THEN 2 * root_size + 1 ELSE root_size

\* the caller of the size computation: encrypt() of encrypt_ami.py, which
\* leaves update_ami at its default, a caller that updates an image, or
\* encrypt() of encrypt_gce_image.py.
InitOutputVolume ==
    /\ wf = "size"
    /\ pc = "size_create"
    /\ err = "none"
    /\ inst = NoInstances
    /\ vol = NoVolumes
    /\ snap = NoSnapshots
    /\ sg = Groups(FALSE)
    /\ image = "absent"
    /\ \E size \in 1..MaxRootSize,
          caller \in {"encrypt_ami", "update", "encrypt_gce_image"} :
        loc = [caller |-> caller,
               root_size |-> size,          \* vol.size / get_disk_size
               output_size |-> 0]           \* size of the volume created
    /\ cu = NoFrame
    /\ hist = NoHistory

\* run_instance with bdm['/dev/sda5'] of the computed size, or
\* create_disk(zone, encrypted_image_disk, guest_size * 2 + 1).
create_output_volume ==
    /\ wf = "size" /\ pc = "size_create"
    /\ loc' = [loc EXCEPT !.output_size =
                 IF loc.caller = "encrypt_gce_image" THEN loc.root_size * 2 + 1
                 ELSE guest_encrypted_root_size(loc.root_size,
                                                loc.caller = "update")]
    /\ pc' = "done"
    /\ UNCHANGED <<wf, err, inst, vol, snap, sg, image, cu, hist>>

(***************************************************************************)
(* _wait_for_image() of encrypt_ami.py.                                    *)
(***************************************************************************)

MaxPolls == 3       \* range(180)

\* What one get_image call of the loop may answer: the state of the image
\* it returns, no image (None), or an EC2ResponseError, whose error code is
\* InvalidAMIID.NotFound or another one.
PollAnswers == {"pending", "available", "failed", "None", "NotFound",
                "OtherError"}

\* The local `image` is unbound until a get_image call has returned.
InitWaitForImage ==
    /\ wf = "wimg"
    /\ pc = "wimg_loop"
    /\ err = "none"
    /\ inst = NoInstances
    /\ vol = NoVolumes
    /\ snap = NoSnapshots
    /\ sg = Groups(FALSE)
    /\ image = "absent"
    /\ loc = [i |-> 0, image |-> "unbound", last |-> "none",
              result |-> "none"]
    /\ cu = NoFrame
    /\ hist = NoHistory

\* The function is left: by return (result "ok") or by exception e.
WimgExit(l, e) ==
    /\ loc' = [l EXCEPT !.result = e]
    /\ err' = IF e = "ok" THEN "none" ELSE e
    /\ pc' = "done"

\* One iteration of the for loop.  A NotFound error continues the loop; any
\* other EC2ResponseError is logged and the rest of the body runs on the
\* local `image` as it is.
wimg_poll ==
    /\ wf = "wimg" /\ pc = "wimg_loop"
    /\ loc.i < MaxPolls
    /\ \E answer \in PollAnswers :
       LET polled == [loc EXCEPT
                        !.i = @ + 1, !.last = answer,
                        !.image = IF answer \in {"NotFound", "OtherError"}
                                  THEN @ ELSE answer]
       IN  CASE answer = "NotFound" ->
                    loc' = polled /\ UNCHANGED <<pc, err>>
             [] polled.image = "unbound" -> WimgExit(polled, "UnboundLocalError")
             [] polled.image = "None" -> WimgExit(polled, "AttributeError")
             [] polled.image = "available" -> WimgExit(polled, "ok")
             [] polled.image = "failed" -> WimgExit(polled, "BracketError")
             [] OTHER -> loc' = polled /\ UNCHANGED <<pc, err>>
    /\ UNCHANGED <<wf, inst, vol, snap, sg, image, cu, hist>>

\* The else clause of the for loop: the message is built from image.state.
wimg_exhausted ==
    /\ wf = "wimg" /\ pc = "wimg_loop"
    /\ loc.i = MaxPolls
    /\ IF loc.image = "unbound" THEN WimgExit(loc, "UnboundLocalError")
       ELSE WimgExit(loc, "BracketError")
    /\ UNCHANGED <<wf, inst, vol, snap, sg, image, cu, hist>>

(***************************************************************************)
(* command_encrypt_gce_image() of __init__.py.                             *)
(***************************************************************************)

\* The command line and the project the command finds: whether the target
\* name is lower case, whether --encryptor-image was given, and which of the
\* images validate_images asks for exist.  `created` holds what the command
\* has created in the project.
InitGceCommand ==
    /\ wf = "gcmd"
    /\ pc = "gcmd_image_name"
    /\ err = "none"
    /\ inst = NoInstances
    /\ vol = NoVolumes
    /\ snap = NoSnapshots
    /\ sg = Groups(FALSE)
    /\ image = "absent"
    /\ \E lower \in BOOLEAN, given \in BOOLEAN, guest \in BOOLEAN,
          encryptor \in BOOLEAN, target \in BOOLEAN :
        loc = [islower |-> lower, encryptor_image |-> given,
               guest_exists |-> guest, encryptor_exists |-> given /\ encryptor,
               target_exists |-> target, created |-> {}, validated |-> FALSE]
    /\ cu = NoFrame
    /\ hist = NoHistory

GceCommandRaise(e) == err' = e /\ pc' = "done"

\* encrypted_image_name = get_image_name(...); the lower-case check.
gcmd_image_name ==
    /\ wf = "gcmd" /\ pc = "gcmd_image_name"
    /\ IF loc.islower THEN pc' = "gcmd_encryptor_image" /\ UNCHANGED err
       ELSE GceCommandRaise("ValidationError")
    /\ UNCHANGED <<wf, inst, vol, snap, sg, image, loc, cu, hist>>

\* What get_latest_encryptor_image creates in the project: the image
\* encryptor-<session id>.
RetrievedEncryptorImage == {"encryptor_image"}

\* The encryptor image: the one named on the command line, or one created
\* in the project from the file in the bucket (which may fail).
gcmd_encryptor_image ==
    /\ wf = "gcmd" /\ pc = "gcmd_encryptor_image"
    /\ IF loc.encryptor_image
       THEN /\ pc' = "gcmd_validate_images"
            /\ UNCHANGED <<err, loc>>
       ELSE \/ /\ loc' = [loc EXCEPT !.created = @ \cup RetrievedEncryptorImage,
                                     !.encryptor_exists =
                                         RetrievedEncryptorImage # {}]
               /\ pc' = "gcmd_validate_images"
               /\ UNCHANGED err
            \/ /\ GceCommandRaise("Exception")
               /\ UNCHANGED loc
    /\ UNCHANGED <<wf, inst, vol, snap, sg, image, cu, hist>>

\* validate_images: the guest image exists, the encryptor image exists, no
\* image has the target name; then encrypt() is entered.
gcmd_validate_images ==
    /\ wf = "gcmd" /\ pc = "gcmd_validate_images"
    /\ IF loc.guest_exists /\ loc.encryptor_exists /\ ~loc.target_exists
       THEN /\ loc' = [loc EXCEPT !.validated = TRUE]
            /\ pc' = "done"
            /\ UNCHANGED err
       ELSE /\ GceCommandRaise("ValidationError")
            /\ UNCHANGED loc
    /\ UNCHANGED <<wf, inst, vol, snap, sg, image, cu, hist>>

(***************************************************************************)
(* wait_for_encryption() of encrypt_ami.py on an unbounded clock: only the *)
(* time left until progress_deadline is kept, which is all that           *)
(* is_expired() looks at.                                                  *)
(***************************************************************************)

\* Variant: a clock that stands still.
ClockStopped(left, d) == left

\* The time left until the deadline after d more intervals; -1 stands for
\* every time after the deadline.
Elapse(left, d) == IF left - d < 0 THEN -1 ELSE left - d

InitEncryptionLoop ==
    /\ wf = "wtl"
    /\ pc = "wtl_loop"
    /\ err = "none"
    /\ inst = NoInstances
    /\ vol = NoVolumes
    /\ snap = NoSnapshots
    /\ sg = Groups(FALSE)
    /\ image = "absent"
    /\ loc = [err_count |-> 0, last_progress |-> 0, left |-> ProgressTimeout,
              alternated |-> FALSE, last |-> "none"]
    /\ cu = NoFrame
    /\ hist = NoHistory

\* get_status() raises: err_count += 1, sleep(10), continue.
wtl_poll_fails ==
    /\ wf = "wtl" /\ pc = "wtl_loop"
    /\ loc.err_count < max_errs
    /\ \E d \in 1..MaxStep :
        loc' = [loc EXCEPT !.err_count = @ + 1, !.left = Elapse(@, d),
                           !.alternated = @ \/ (loc.last = "encrypting"),
                           !.last = "failure"]
    /\ UNCHANGED <<wf, pc, err, inst, vol, snap, sg, image, cu, hist>>

\* get_status() returns a status: the deadline is looked at, progress renews
\* it, a final state ends the loop, sleep(10) otherwise.
wtl_poll ==
    /\ wf = "wtl" /\ pc = "wtl_loop"
    /\ loc.err_count < max_errs
    /\ \E d \in 1..MaxStep, status \in Statuses :
       LET left == Elapse(loc.left, d)
           percent_complete == status[2]
           progressed == percent_complete > loc.last_progress
           polled == [loc EXCEPT
                        !.err_count = 0,
                        !.left = IF progressed /\ left >= 0
                                 THEN ProgressTimeout ELSE left,
                        !.last_progress = IF progressed /\ left >= 0
                                          THEN percent_complete ELSE @,
                        !.last = status[1]]
       IN  /\ loc' = polled
           /\ IF left < 0
              THEN err' = "EncryptionError" /\ pc' = "done"
              ELSE CASE status[1] = "successful" ->
                            pc' = "done" /\ UNCHANGED err
                     [] status[1] = "failed" ->
                            /\ err' = IF status[3] = "unsupported_guest"
                                      THEN "UnsupportedGuestError"
                                      ELSE "EncryptionError"
                            /\ pc' = "done"
                     [] OTHER -> UNCHANGED <<pc, err>>
    /\ UNCHANGED <<wf, inst, vol, snap, sg, image, cu, hist>>

\* The loop condition fails: 'Encryption service unavailable'.
wtl_unavailable ==
    /\ wf = "wtl" /\ pc = "wtl_loop"
    /\ loc.err_count >= max_errs
    /\ err' = "EncryptionError" /\ pc' = "done"
    /\ UNCHANGED <<wf, inst, vol, snap, sg, image, loc, cu, hist>>

\* The loop of wait_for_encryption goes on as long as it has not been left.
wait_for_encryption_loop == wtl_poll_fails \/ wtl_poll \/ wtl_unavailable

(***************************************************************************)
(* The system.                                                             *)
(***************************************************************************)

Init == InitEncrypt \/ InitCleanUp \/ InitUpdate \/ InitGce
        \/ InitWaitForEncryption \/ InitWaitForSnapshots
        \/ InitWaitForInstance \/ InitWaitForVolume \/ InitCommand
        \/ InitRegister
        \/ InitAppendSuffix
        \/ InitImageName
        \/ InitSessions
        \/ InitOutputVolume
        \/ InitWaitForImage
        \/ InitGceCommand
        \/ InitEncryptionLoop

Next ==
    \/ InstanceTerminates
    \/ run_snapshotter_instance
    \/ snapshot_root_volume
    \/ terminate_snapshotter
    \/ create_security_group
    \/ run_encryptor_instance
    \/ wait_for_encryptor_up
    \/ encrypt_wait_for_encryption
    \/ stop_encryptor
    \/ snapshot_volumes
    \/ encrypt_wait_for_snapshots
    \/ terminate_encryptor
    \/ register_new_ami
    \/ encrypt_finally
    \/ clean_up_terminate
    \/ clean_up_snapshots
    \/ clean_up_wait
    \/ clean_up_volumes
    \/ clean_up_groups
    \/ update_launch_guest
    \/ update_security_group
    \/ update_launch_updater
    \/ update_wait_guest_running
    \/ update_stop_guest
    \/ update_wait_updater_running
    \/ update_wait_for_encryptor_up
    \/ update_wait_for_encryption
    \/ update_stop_updater
    \/ update_preserve
    \/ update_detach_old
    \/ update_detach_new
    \/ update_attach_new
    \/ update_create_image
    \/ update_finally
    \/ clean_up
    \/ gce_call
    \/ gce_call_raises
    \/ gce_interrupt
    \/ gce_return
    \/ wfe_poll_fails
    \/ wfe_poll
    \/ wfe_unavailable
    \/ SnapshotSettles
    \/ wfs_poll
    \/ wfs_poll_raises
    \/ InstanceChanges
    \/ wfi_poll
    \/ wfi_poll_raises
    \/ wfi_timeout
    \/ VolumeSettles
    \/ wfv_poll
    \/ wfv_poll_raises
    \/ command_validate
    \/ command_validate_guest
    \/ command_config
    \/ command_encrypt
    \/ reg_snapshot_root_volume
    \/ reg_new_bdm
    \/ reg_register_image
    \/ reg_wait_for_image
    \/ append_suffix
    \/ get_updated_image_name
    \/ \E s \in Sessions : session_workflow(s)
    \/ \E s \in Sessions : session_raises(s)
    \/ \E s \in Sessions : session_finally(s)
    \/ \E s \in Sessions : session_clean_up(s)
    \/ create_output_volume
    \/ wimg_poll
    \/ wimg_exhausted
    \/ gcmd_image_name
    \/ gcmd_encryptor_image
    \/ gcmd_validate_images
    \/ wtl_poll_fails
    \/ wtl_poll
    \/ wtl_unavailable

Spec == Init /\ [][Next]_vars

\* The workflows with their wait loops running: a loop that can make another
\* iteration eventually makes one.  The provider is under no obligation.
FairSpec ==
    /\ Spec
    /\ WF_vars(wfi_poll) /\ WF_vars(wfi_timeout)
    /\ WF_vars(wfs_poll)
    /\ WF_vars(wfv_poll)

\* wait_for_encryption keeps running until it returns or raises; what the
\* agent answers is not constrained.
TerminationSpec == Spec /\ WF_vars(wait_for_encryption_loop)

(***************************************************************************)
(* Properties.                                                             *)
(***************************************************************************)

\* C1: when encrypt() has terminated (returned or raised) and no terminate /
\* delete call it issued has failed, no snapshotter or encryptor instance, no
\* volume, no original-guest snapshot and no temporary security group of the
\* session remains allocated.
C1_EncryptLeavesNothing ==
    (wf = "encrypt" /\ pc = "done" /\ ~hist.tdFailed) =>
        /\ ~AllocatedInstance("snapshotter")
        /\ ~AllocatedInstance("encryptor")
        /\ \A v \in Volumes : ~AllocatedVolume(v)
        /\ snap["orig"] = "absent"
        /\ sg["sg_temp"].st = "absent"

\* C4: the compensation pass of encrypt() (the volume query followed by
\* _clean_up) never raises.
C4_CompensationNeverRaises ==
    wf = "encrypt" => \A k \in 1..Len(hist.raised) : ~hist.raised[k]

\* C7: in the compensation of encrypt() no delete_volume and no
\* delete_security_group call is issued while an instance of the session has
\* not reached the terminated state.
C7_DeletesAfterTermination ==
    wf = "encrypt" => ~hist.orderViol

\* C8: when _clean_up is over, it has called terminate for every given
\* instance id and delete for every given snapshot, volume and group id.
C8_AllResourcesAttempted ==
    (wf \in {"encrypt", "cleanup"} /\ Len(hist.raised) >= 1) =>
        /\ Range(cu.instance_ids) \subseteq hist.termCalls
        /\ Range(cu.snapshot_ids) \cup Range(cu.volume_ids.ids)
             \cup Range(cu.security_group_ids) \subseteq hist.delCalls

\* C9: when the first of two _clean_up invocations with the same ids has left
\* every given resource absent, the second one leaves them absent and does
\* not raise (nor did the first).
C9_CleanUpIdempotent ==
    (wf = "cleanup" /\ pc = "done" /\ cu.after1 = {}) =>
        /\ AllocatedResources \cap GivenResources = {}
        /\ ~hist.raised[1] /\ ~hist.raised[2]

C3_CompensationOnce ==
    wf \in {"encrypt", "update"} =>
        /\ hist.cleanupCalls <= 1
        /\ pc = "done" => hist.cleanupCalls = 1

\* C3 happens: encrypt() left with an exception after one compensation pass.
C3_Witness ==
    /\ wf = "encrypt" /\ pc = "done"
    /\ err = "EncryptionError"
    /\ hist.cleanupCalls = 1

\* C5: when an Exception raised in any of the three stages of the GCE
\* encrypt() leaves the function, gce_svc.cleanup(zone) has been called.
C5_GceFailureCleansUp ==
    (wf = "gce" /\ pc = "done" /\ err = "Exception") => hist.cleanupCalls >= 1

\* C6: when a user interrupt delivered at a wait point has left the workflow
\* (AWS encrypt, AWS update_ami, GCE encrypt), the compensation pass of the
\* session has been entered.
C6_InterruptCompensates ==
    (wf \in {"encrypt", "update", "gce"} /\ pc = "done" /\ hist.interrupted) =>
        hist.cleanupCalls >= 1

\* C10 as stated: when wait_for_encryption() is left, it has raised the stall
\* error if and only if the last increase of percent_complete that a poll
\* reported lies more than progress_timeout back.
C10_StallIffNoIncrease ==
    (wf = "wfe" /\ pc = "done") =>
        (loc.result = "stall" <=> loc.now - loc.incAt > ProgressTimeout)

\* C10: when wait_for_encryption() is left, it has raised the stall error if
\* and only if its last poll returned a status and came more than
\* progress_timeout after the last earlier poll that reported a higher
\* percent_complete than all polls before it (after the start, if none did).
C10_StallAtExpiredPoll ==
    (wf = "wfe" /\ pc = "done") =>
        (loc.result = "stall" <=>
            (loc.lastOk /\ loc.now - loc.incBefore > ProgressTimeout))

\* C10 happens: the stall error is raised after progress had restarted the
\* window, and on its own the time since the start would have exceeded it
\* before.
C10_Witness ==
    /\ wf = "wfe" /\ pc = "done" /\ loc.result = "stall"
    /\ loc.incBefore > ProgressTimeout
    /\ loc.now - loc.incBefore > ProgressTimeout

\* C11: a poll of wait_for_encryption() that reports state failed ends the
\* wait with UnsupportedGuestError when failure_code is the unsupported-guest
\* code, and with EncryptionError('Encryption failed') for any other or no
\* failure code.
C11_FailedStatusRaises ==
    (wf = "wfe" /\ loc.lastOk /\ loc.status[1] = "failed") =>
        /\ pc = "done"
        /\ loc.status[3] = "unsupported_guest" =>
                loc.result = "unsupported" /\ err = "UnsupportedGuestError"
        /\ loc.status[3] # "unsupported_guest" =>
                loc.result = "failed" /\ err = "EncryptionError"

\* C12: a poll of wait_for_encryption() that reports state successful makes
\* the function return without an exception, whatever the time and the
\* percent_complete reported.
C12_SuccessfulStatusReturns ==
    (wf = "wfe" /\ loc.lastOk /\ loc.status[1] = "successful") =>
        pc = "done" /\ loc.result = "ok" /\ err = "none"

\* C13: wait_for_encryption() counts the polls that failed in a row (a
\* status resets the count), never lets them exceed max_errs, and when it is
\* left it has raised 'Encryption service unavailable' if and only if
\* max_errs polls in a row have failed.
C13_UnavailableIffMaxErrs ==
    wf = "wfe" =>
        /\ loc.err_count = loc.streak
        /\ loc.streak <= max_errs
        /\ pc = "done" => (loc.result = "unavailable" <=> loc.streak = max_errs)

\* C13 happens: 'Encryption service unavailable' is raised after more than
\* max_errs polls have failed in all, a status in between having reset the
\* count.
C13_Witness ==
    /\ wf = "wfe" /\ pc = "done" /\ loc.result = "unavailable"
    /\ err = "EncryptionError"
    /\ loc.failures > max_errs

\* C14: wait_for_snapshots() raises SnapshotError at the first poll that
\* sees a snapshot of the batch in status error, whatever the status of the
\* others, and it returns only at a poll that sees every snapshot of the
\* batch in status completed.
C14_SnapshotErrorAtOnce ==
    (wf = "wfs" /\ loc.polled) =>
        LET sawError == \E s \in EncryptorSnapshots : loc.observed[s] = "error"
        IN  /\ ~loc.missed
            /\ sawError <=> (pc = "done" /\ err = "SnapshotError")
            /\ (pc = "done" /\ err = "none") =>
                    \A s \in EncryptorSnapshots : loc.observed[s] = "completed"

\* C14 happens: SnapshotError is raised at a poll that sees one snapshot in
\* error, one still pending and one completed.
C14_Witness ==
    /\ wf = "wfs" /\ pc = "done" /\ err = "SnapshotError"
    /\ loc.observed["snap_grub"] = "error"
    /\ loc.observed["snap_log"] = "pending"
    /\ loc.observed["snap_guest"] = "completed"

\* C15: when one of the four snapshots of the encryptor volumes has entered
\* status error, encrypt() ends by raising SnapshotError, no image has been
\* registered, and the snapshotter and the encryptor instance have each got
\* a terminate call from _clean_up unless a terminate call had succeeded on
\* them before.
C15_SnapshotErrorCompensated ==
    (/\ wf = "encrypt" /\ pc = "done"
     /\ \E s \in EncryptorSnapshots : snap[s] = "error") =>
        /\ err = "SnapshotError"
        /\ loc.ami = None /\ image = "absent"
        /\ {"snapshotter", "encryptor"} \subseteq
                hist.termCalls \cup loc.terminated_instance_ids

C17_WaitsEnd == (wf \in {"wfi", "wfs", "wfv"}) ~> (pc = "done")

\* C18: once a step of encrypt() has raised, control is in the finally block
\* or in _clean_up and stays there; no instance is launched or stopped, no
\* snapshot is created, no image is registered and no local of encrypt() is
\* assigned any more; and the exception in flight stays the one that the
\* step raised.
C18_FailureShortCircuits ==
    [][(wf = "encrypt" /\ err # "none") =>
          /\ {pc, pc'} \subseteq {"finally", "cu_terminate", "cu_snapshots",
                                  "cu_wait", "cu_volumes", "cu_groups", "done"}
          /\ \A i \in Instances :
                inst'[i] \in {inst[i], "shutting-down", "terminated"}
          /\ \A s \in Snapshots : snap'[s] \in {snap[s], "absent"}
          /\ image' = image
          /\ loc' = loc
          /\ err' = err]_vars

\* C19: for a guest image that carries the BrktEncryptor tag,
\* command_encrypt_ami() never gets past _validate_guest_ami: encrypt() is
\* not invoked, no instance, volume, snapshot or security group is created,
\* the command ends with an exception, and once the guest image has been
\* checked that exception is ValidationError.
C19_TaggedGuestRejected ==
    /\ []((wf = "cmd" /\ TAG_ENCRYPTOR \in loc.image.tags) =>
            /\ pc \in {"cmd_validate", "cmd_validate_guest", "done"}
            /\ inst = NoInstances /\ vol = NoVolumes /\ snap = NoSnapshots
            /\ sg["sg_temp"].st = "absent"
            /\ pc = "done" =>
                /\ err # "none"
                /\ loc.error_msg # None => err = "ValidationError")
    /\ [][(wf = "cmd" /\ TAG_ENCRYPTOR \in loc.image.tags) => wf' = "cmd"]_vars

\* C19 happens: the guest validation has rejected a tagged image that would
\* pass every other check.
C19_Witness ==
    /\ wf = "cmd" /\ pc = "done" /\ err = "ValidationError"
    /\ loc.error_msg = "is already an encrypted image"
    /\ loc.image.tags = {"Name", TAG_ENCRYPTOR}
    /\ loc.image.platform = None /\ loc.image.root_device_type = "ebs"
    /\ loc.image.hypervisor = "xen"

\* C20 as stated: the block device mapping update_ami() passes to
\* create_image gives /dev/sdf the volume type and the IOPS value that the
\* guest root volume had before the update.
C20_RootTypeAndIops ==
    wf = "update" =>
        \A bdm \in loc.create_image_bdm :
            /\ bdm[GUEST_ROOT_DEVICE_NAME].volume_type = loc.guest_root.type
            /\ bdm[GUEST_ROOT_DEVICE_NAME].iops = loc.guest_root.iops

\* C20: the block device mapping update_ami() passes to create_image gives
\* /dev/sdf the volume type that the guest root volume had before the
\* update; it gives it the IOPS value of that volume when the type is io1,
\* and no IOPS value for any other type.
C20_RootTypeAndIo1Iops ==
    wf = "update" =>
        \A bdm \in loc.create_image_bdm :
            /\ bdm[GUEST_ROOT_DEVICE_NAME].volume_type = loc.guest_root.type
            /\ bdm[GUEST_ROOT_DEVICE_NAME].iops =
                    IF loc.guest_root.type = "io1" THEN loc.guest_root.iops
                    ELSE None

\* C20 happens: create_image was called for a guest whose root volume is of
\* type io1 with 2000 IOPS.
C20_Witness ==
    /\ wf = "update" /\ pc = "done" /\ loc.ami = "ami"
    /\ loc.guest_root = [type |-> "io1", iops |-> "2000"]
    /\ loc.create_image_bdm # {}

\* C21: the block device mapping that encrypt() registers for the new image
\* gives /dev/sda5 the volume type and the IOPS of the original guest root
\* volume, as _snapshot_root_volume captured them.
C21_GuestRootPreserved ==
    wf = "reg" =>
        \A bdm \in loc.registered_bdm :
            /\ bdm["/dev/sda5"].volume_type = loc.guest_root.type
            /\ bdm["/dev/sda5"].iops = loc.guest_root.iops

C23_SingleSuffix ==
    wf = "name" =>
        \A k \in 1..Len(loc.names) :
            LET name == loc.names[k]
                tail == Len(loc.session_ids[k]) + 13
            IN  /\ Len(name) <= 128
                /\ tail <= Len(name)
                /\ SubSeq(name, Len(name) - tail + 1, Len(name)) =
                        <<" ", "(", "e", "n", "c", "r", "y", "p", "t", "e",
                          "d", " ">> \o loc.session_ids[k] \o <<")">>
                /\ {i \in 0..Len(name) : SuffixAt(name, i)}
                        = {Len(name) - tail}

\* C23: every name _get_updated_image_name returns is at most 128 characters
\* long and ends with the suffix of its session; it holds no other
\* '(encrypted ...)' suffix, also when the function is applied to its own
\* output with another session id, provided the name of the first image
\* held no such suffix or held exactly one, after at least one character.
C23_SingleSuffixOfPlainName ==
    wf = "name" =>
        \A k \in 1..Len(loc.names) :
            LET name == loc.names[k]
                tail == Len(loc.session_ids[k]) + 13
                given == {i \in 0..Len(loc.guest_image_name) :
                            SuffixAt(loc.guest_image_name, i)}
            IN  /\ Len(name) <= 128
                /\ tail <= Len(name)
                /\ SubSeq(name, Len(name) - tail + 1, Len(name)) =
                        <<" ", "(", "e", "n", "c", "r", "y", "p", "t", "e",
                          "d", " ">> \o loc.session_ids[k] \o <<")">>
                /\ (given = {} \/ \E i \in 1..Len(loc.guest_image_name) :
                                       given = {i})
                    => {i \in 0..Len(name) : SuffixAt(name, i)}
                            = {Len(name) - tail}

\* C23 happens: a long name that ends with the suffix of an earlier session
\* was renamed by two sessions, its base truncated.
C23_Witness ==
    /\ wf = "name" /\ pc = "done"
    /\ Len(loc.guest_image_name) > 128
    /\ SuffixAt(loc.guest_image_name, Len(loc.guest_image_name) - 14)
    /\ Cardinality({i \in 0..Len(loc.guest_image_name) :
                        SuffixAt(loc.guest_image_name, i)}) = 1
    /\ Len(loc.names) = 2
    /\ Len(loc.names[1]) = 128

\* C24: in encrypt() and update_ami() a group the caller supplied is never
\* changed and never gets a delete call, and while the caller supplied one
\* no temporary group is created or handed to the compensation; a temporary
\* group exists, and is deleted, only when the caller supplied none.
C24_SuppliedGroupsUntouched ==
    /\ [](wf \in {"encrypt", "update"} =>
            /\ "sg_user" \notin hist.delCalls
            /\ sg["sg_user"].st = "present" =>
                /\ sg["sg_temp"].st = "absent"
                /\ loc.temp_sg_id = None
                /\ "sg_temp" \notin hist.delCalls)
    /\ [][(wf \in {"encrypt", "update"}) => (sg'["sg_user"] = sg["sg_user"])]_vars

\* C24 happens: encrypt() ran to its end with a group of the caller, and
\* update_ami() created a temporary group that its compensation deleted.
C24_Witness ==
    \/ /\ wf = "encrypt" /\ pc = "done"
       /\ sg["sg_user"].st = "present"
       /\ loc.ami = "ami"
       /\ hist.cleanupCalls = 1
    \/ /\ wf = "update" /\ pc = "done"
       /\ sg["sg_user"].st = "absent"
       /\ loc.temp_sg_id = "sg_temp"
       /\ sg["sg_temp"].st = "absent"
       /\ "sg_temp" \in hist.delCalls

\* C25: when the wait for the encryption fails in encrypt(), with a failed
\* status, the unsupported-guest case included, a stall or an unavailable
\* agent, the console output of the encryptor instance has been fetched when
\* the error leaves the try block, before the compensation starts.
C25_ConsoleOutputFetched ==
    (/\ wf = "encrypt" /\ pc = "finally"
     /\ err \in {"EncryptionError", "UnsupportedGuestError"})
        => (hist.console /\ hist.cleanupCalls = 0)

\* C26: when register_image fails with InvalidAMIID.NotFound and a message
\* that holds an AMI id, register_new_ami goes on to _wait_for_image with
\* that id and returns it; after every other failure of register_image the
\* error of the provider is what register_new_ami raises.
C26_RegistrationFailure ==
    (wf = "reg" /\ loc.register_error[1] # "none") =>
        IF loc.register_error = <<"InvalidAMIID.NotFound", TRUE>>
        THEN /\ loc.ami = "ami-recovered"
             /\ pc \in {"reg_wait_for_image", "done"}
             /\ pc = "done" => err \in {"none", "BracketError", "EC2ResponseError"}
        ELSE pc = "done" /\ err = "EC2ResponseError"

\* C27: with two sessions of distinct session ids running encrypt() against
\* one account, under every interleaving, every terminate, delete and
\* create_tags call of a session is made on a resource that this session
\* created, and a resource changes only in a step of the session it was
\* created for.
C27_SessionsIsolated ==
    /\ [](wf = "sessions" => \A c \in loc.calls : c[3][2] = c[1])
    /\ [][wf = "sessions" =>
            \A s \in Sessions :
                (loc'.ses[s] = loc.ses[s]) =>
                    \A r \in DOMAIN loc.res :
                        (r[2] = s) => (loc'.res[r] = loc.res[r])]_vars

\* C27 happens: both sessions compensated, and one of them deleted a volume
\* it found by its session tag while a tagged volume of the other existed.
C27_Witness ==
    /\ wf = "sessions"
    /\ \E s, t \in Sessions :
        /\ s # t
        /\ <<s, "delete", <<"volume", s>>>> \in loc.calls
        /\ loc.ses[s].pc = "done"
        /\ loc.ses[t].pc \in {"security_group", "finally"}
        /\ loc.res[<<"volume", t>>] = [st |-> "present", tag |-> t]

\* C28: when the compensation of encrypt() has run, every volume that still
\* carries the session tag, and every snapshot of the session that the
\* workflow did not track and that no image was registered from, has had a
\* delete call, and no delete call came while an instance was still live.
C28_OrphansDeleted ==
    (wf = "encrypt" /\ pc = "done" /\ hist.cleanupCalls > 0) =>
        /\ \A v \in Volumes :
            (vol[v].st # "absent" /\ vol[v].tag) => v \in hist.delCalls
        /\ \A s \in Snapshots :
            (snap[s] # "absent" /\ s # loc.snapshot_id /\ image = "absent")
                => s \in hist.delCalls
        /\ ~hist.orderViol

\* C29: after create_encryptor_security_group, whether it returned or
\* raised, a temporary security group that exists carries the session tags.
C29_GroupAlwaysTagged ==
    wf = "encrypt" => (sg["sg_temp"].st = "present" => sg["sg_temp"].tag)

\* C30: encrypt() and update_ami() only read the guest image and the agent
\* image of the caller and launch instances from them, and the image they
\* return is one that their own register_image or create_image call made.
C30_InputImagesReadOnly ==
    wf \in {"encrypt", "update"} =>
        /\ \A c \in hist.imageCalls :
            c[2] \in {"guest", "agent"} => c[1] \in {"get_image", "run_instance"}
        /\ loc.ami # None =>
            /\ loc.ami = "ami"
            /\ image = "available"
            /\ hist.imageCalls \cap {<<"register_image", "new">>,
                                     <<"create_image", "new">>} # {}

\* C30 happens: encrypt() returned a new image after it launched instances
\* from the guest image and from the agent image.
C30_Witness ==
    /\ wf = "encrypt" /\ pc = "done" /\ err = "none"
    /\ loc.ami = "ami"
    /\ {<<"run_instance", "guest">>, <<"run_instance", "agent">>,
        <<"get_image", "guest">>, <<"create_tags", "new">>}
            \subseteq hist.imageCalls

SnapshotCreated(s) == snap[s] = "absent" /\ snap'[s] # "absent"
AllEncryptorSnapshotsCompleted ==
    \A s \in EncryptorSnapshots : snap[s] = "completed"

\* A step of encrypt() or of its compensation that calls terminate_instance
\* on the encryptor.
EncryptorTerminateCall ==
    \/ pc = "terminate_encryptor"
    \/ /\ pc = "cu_terminate"
       /\ cu.i <= Len(cu.instance_ids)
       /\ cu.instance_ids[cu.i] = "encryptor"

SnapshotsAfterStopped ==
    /\ SnapshotCreated("orig") => (inst'["snapshotter"] = "stopped")
    /\ \A s \in EncryptorSnapshots :
         SnapshotCreated(s) => (inst["encryptor"] = "stopped"
                                /\ inst'["encryptor"] = "stopped")

RegisterAfterTerminate ==
    (image' # image) =>
        /\ AllEncryptorSnapshotsCompleted
        /\ loc.encryptor_instance = None
        /\ pc = "register_new_ami"

BothStopped == inst["guest"] = "stopped" /\ inst["updater"] = "stopped"

\* A step that makes a detach_volume call.
DetachCall == pc \in {"detach_old", "detach_new"}

\* A step in which the new metavisor volume becomes attached to the guest.
NewVolumeAttached ==
    vol["u_sda1"].at # "guest" /\ vol'["u_sda1"].at = "guest"

\* A step in which create_image is called.
CreateImageCall == loc.create_image_bdm = {} /\ loc'.create_image_bdm # {}

\* C33: in update_ami(), a volume is detached only when the guest and the
\* updater are both stopped; the new metavisor volume is attached to the
\* guest only when the old one is off the guest and the new one is off the
\* updater; create_image is called only when the new volume is attached to
\* the guest.
C33_UpdateStepOrder ==
    [][(wf = "update") =>
         /\ DetachCall => BothStopped
         /\ NewVolumeAttached =>
              /\ vol["g_sda1"].at # "guest"
              /\ vol["u_sda1"].at = "none"
              /\ vol["u_sda1"].st = "avail"
              /\ BothStopped
         /\ CreateImageCall =>
              /\ vol["u_sda1"].at = "guest"
              /\ vol["u_sda1"].st = "inuse"
              /\ vol["g_sda1"].at # "guest"]_vars

C33_Witness ==
    /\ wf = "update" /\ pc = "update_finally" /\ err = "none"
    /\ image = "available"
    /\ loc.create_image_bdm # {}
    /\ BothStopped
    /\ vol["g_sda1"].st = "absent"
    /\ vol["u_sda1"].at = "guest"

(***************************************************************************)
(* C34: the status polls of encrypt() and the wait for the agent.          *)
(***************************************************************************)
\* wait_for_encryptor_up returns only in an iteration that found the deadline
\* not expired and got "up" from the agent; it raises BracketError only in an
\* iteration that found the deadline expired.
UpExitsAsAnswered ==
    (pc = "wait_for_encryptor_up" /\ pc' # pc) =>
        /\ (pc' = "wait_for_encryption") <=>
              (loc'.up_result = "returned"
               /\ ~is_expired(UpTimeout, loc.up_elapsed)
               /\ loc'.encryptor_up = "up")
        /\ (err' = "BracketError") <=>
              (loc'.up_result = "BracketError"
               /\ is_expired(UpTimeout, loc.up_elapsed)
               /\ loc'.encryptor_up # "up")

\* C34: encrypt() polls the encryption status only after is_encryptor_up has
\* answered true with the deadline not expired; when the deadline expires
\* first, wait_for_encryptor_up raises BracketError, no status poll is made
\* and the compensation pass runs.
C34_StatusPolledOnlyWhenUp ==
    /\ [](wf = "encrypt" =>
            /\ loc.status_polled =>
                 (loc.up_result = "returned" /\ loc.encryptor_up = "up")
            /\ (pc = "wait_for_encryption") => loc.up_result = "returned"
            /\ (loc.up_result = "BracketError") =>
                 /\ ~loc.status_polled
                 /\ pc # "wait_for_encryption"
                 /\ (pc = "done") => hist.cleanupCalls = 1
            /\ (pc = "wait_for_encryptor_up") =>
                 loc.up_elapsed <= UpTimeout + MaxStep)
    /\ [][(wf = "encrypt") => UpExitsAsAnswered]_vars

\* The deadline expired on an agent that never answered "up".
C34_Witness ==
    /\ wf = "encrypt" /\ pc = "done"
    /\ loc.up_result = "BracketError"
    /\ loc.encryptor_up = "down"
    /\ ~loc.status_polled
    /\ hist.cleanupCalls = 1
    /\ "encryptor" \in hist.termCalls

(***************************************************************************)
(* C35: the exits of _wait_for_image().                                    *)
(***************************************************************************)
\* C35: _wait_for_image returns only when its last poll reported the image
\* available, raises BracketError when the last poll reported it failed or
\* when all polls have passed, and has no other way out: a NotFound answer
\* and any other provider error leave it polling.
C35_WaitForImageExits ==
    (wf = "wimg" /\ pc = "done") =>
        /\ loc.result \in {"ok", "BracketError"}
        /\ (loc.result = "ok") => (loc.last = "available")
        /\ (loc.result = "BracketError") =>
              (loc.last = "failed" \/ loc.i = MaxPolls)

(***************************************************************************)
(* C36: the resources encrypt() holds for its compensation pass.           *)
(***************************************************************************)
\* What the finally block of encrypt() would hand to _clean_up from the
\* locals as they are now: instances, snapshot and security group.
RecordedForCleanup ==
    {loc.snapshotter_instance, loc.encryptor_instance, loc.snapshot_id,
     loc.temp_sg_id} \ {None}

\* C36: until the compensation pass of encrypt() starts, no step removes an
\* instance, snapshot or security group from the set recorded for cleanup,
\* and when encrypt() has terminated the pass has run exactly once.
C36_RecordedSetOnlyGrows ==
    /\ [][(wf = "encrypt" /\ hist.cleanupCalls = 0) =>
            RecordedForCleanup \subseteq RecordedForCleanup']_vars
    /\ []((wf = "encrypt" /\ pc = "done") => hist.cleanupCalls = 1)

(***************************************************************************)
(* C37: the snapshots of the encryptor's volumes after a failed encrypt(). *)
(***************************************************************************)
\* C37: when encrypt() has terminated without returning an image, and no
\* terminate or delete call of its compensation has failed, none of the four
\* snapshots of the encryptor's volumes is left allocated.
C37_NoSnapshotLeftOnFailure ==
    (wf = "encrypt" /\ pc = "done" /\ loc.ami = None /\ ~hist.tdFailed) =>
        \A s \in EncryptorSnapshots : snap[s] = "absent"

(***************************************************************************)
(* C38: the block device mapping register_new_ami registers.               *)
(***************************************************************************)
\* The snapshot each device of the encrypted image is to be backed by.
SnapshotOfDevice ==
    [d \in {"/dev/sda1", "/dev/sda2", "/dev/sda3", "/dev/sda5"} |->
        CASE d = "/dev/sda1" -> "snap_grub"
          [] d = "/dev/sda2" -> "snap_bsd"
          [] d = "/dev/sda3" -> "snap_log"
          [] OTHER -> "snap_guest"]

\* The devices the guest image maps to ephemeral storage.
EphemeralKeys ==
    {k \in DOMAIN loc.guest_bdm : loc.guest_bdm[k].ephemeral_name # None}

EphemeralsPropagated(bdm) ==
    \A k \in EphemeralKeys : k \in DOMAIN bdm /\ bdm[k] = loc.guest_bdm[k]

C39_ValidationBeforeResources ==
    (wf = "gcmd" /\ pc = "done" /\ err = "ValidationError") =>
        loc.created = {}

(***************************************************************************)
(* C40: wait_for_encryption() terminates.                                  *)
(***************************************************************************)
\* C40: with a clock that advances at every poll and percent_complete in
\* its range, wait_for_encryption is left, by return or by one of its
\* errors, after finitely many polls, whatever the agent answers.
C40_WaitForEncryptionTerminates == (wf = "wtl") ~> (pc = "done")

\* The loop was left although failed polls alternated with in-progress
\* answers: the deadline expired on an answer that showed no progress.
C40_Witness ==
    /\ wf = "wtl" /\ pc = "done" /\ err = "EncryptionError"
    /\ loc.alternated
    /\ loc.last = "encrypting"
    /\ loc.last_progress = 0
    /\ loc.err_count = 0

====
